---- MODULE Spec2Model ----
(***************************************************************************)
(* Vermont: a local GitHub Actions runner.                                 *)
(*                                                                         *)
(* This module models these parts of the repository: the job schedulers    *)
(* (specifications Spec and FairSpec), the resolution of a remote action   *)
(* reference through the action cache (SpecCache), the expansion of a      *)
(* job's matrix (SpecMatrix for one run of the program, SpecMatrixAgain    *)
(* for repeated runs on one workflow, SpecMatrixNeeds for a workflow whose *)
(* jobs need each other), the substitution of the ${{ }} expressions of a  *)
(* text (SpecTemplate; SpecTemplateLoop and FairSpecTemplateLoop for       *)
(* substituteWorkflowTemplates turn by turn), the execution of the steps   *)
(* of a job or of a composite action (SpecAction), the validation of a     *)
(* parsed workflow (SpecParse), composite actions that use each other      *)
(* (SpecRecursion) and two invocations of one action reference that share  *)
(* a temporary directory (SpecOverlap).  Most parts exist twice, in the    *)
(* packages under pkg/ and in the single-file program main.go; the         *)
(* variable engine selects which one runs.  The two job schedulers are:    *)
(*   - the package scheduler, JobScheduler in pkg/executor/executor.go     *)
(*     (ExecuteWorkflow, validateDependencies, executeJobs and the worker  *)
(*     goroutines it starts), engine = "pkg";                              *)
(*   - the single-file scheduler of main.go (executeJobsWithDependencies,  *)
(*     validateJobDependencies, findReadyJobs, the worker goroutines and   *)
(*     the process exit of main()), engine = "main".                       *)
(*                                                                         *)
(* A workflow is a set of jobs with their needs lists.  needs is modelled  *)
(* as a set per job: the code only ever iterates the list and tests        *)
(* membership, so order and duplicates do not change what it computes.     *)
(* Whether a step of a job succeeds is decided by the environment when the *)
(* step runs (container exit status).                                      *)
(***************************************************************************)
EXTENDS Integers, Sequences, FiniteSets, TLC

\* ---------------------------------------------------------------- bounds
\* Largest value of runner.maxConcurrentJobs explored (0..MaxConcurrentCap).
MaxConcurrentCap == 2
\* Number of steps of every job.
StepsPerJob == 2

\* The job IDs of the workflow (after matrix expansion).
JobIDs == {"a", "b", "c"}
\* An ID that names no job; a needs entry equal to it is a missing dependency.
Ghost == "ghost"

VARIABLES
    engine,         \* which scheduler runs the workflow: "pkg" or "main"
    needs,          \* needs[j]: the IDs job j depends on
    maxConcurrent,  \* config.Runner.MaxConcurrentJobs
    pc,             \* position of the scheduler goroutine
    result,         \* what the run returned: "none" while it has not returned
    status,         \* pkg: JobState.Status of every job
    completedJobs,  \* pkg: JobScheduler.completedJobs (keys)
    semaphore,      \* pkg: number of tokens held in the semaphore channel
    errorChan,      \* pkg: buffered error channel, job IDs in send order
    wg,             \* pkg: sync.WaitGroup counter
    completed,      \* main: keys of the completed map (all values true)
    inProgress,     \* main: the inProgress map, a function key -> BOOLEAN
    results,        \* main: buffered results channel, <<job, error?>> in send order
    phase,          \* position of the worker goroutine of every job
    stepsRun,       \* number of steps of the job that have been executed
    jobErr,         \* local err of the worker: "none", "ok" or "fail"
    exited,         \* main: the process has exited (main() returned or log.Fatalf)
    stepLog,        \* per job, the steps executed so far: <<index, succeeded>>
    mutex,          \* pkg: JobScheduler.mutex, [writer, readers]
    workspace,      \* per job, the host directory its steps were given
    pipelineDirExists, \* main: the per-run directory exists on disk
    gitAvailable,   \* actions: exec.LookPath("git") succeeds
    actionFile,     \* actions: the metadata file of the action repository
    pcR,            \* actions: position of every resolution of the action ref
    cacheTree,      \* actions: what is on disk at the ref's cache location
    tempTree,       \* actions: what is on disk at localPath + ".tmp"
    fetches,        \* actions: git clone invocations of every resolution
    hit,            \* actions: the resolution found the action cached
    outcomeR,       \* actions: what the resolution returned: "none", "ok", "error"
    matrixDims,     \* matrix: the dimensions of job "build", key -> list of values
    excludeList,    \* matrix: the entries under the key "exclude"
    includeList,    \* matrix: the entries under the key "include"
    otherJob,       \* matrix: the ID of a second job without a matrix, or "none"
    expanded,       \* matrix: the expansion has run
    expandedJobs,   \* matrix: the resulting jobs map, ID -> the job it was cloned from
    assignments,    \* matrix: every expandedJobs[id] = job the expansion executed
    originalJob,    \* matrix: the fields of job "build" as parsed, path -> text
    clonedJobs,     \* matrix: the jobs cloned from "build", one per combination
    substituter,    \* templates: the function that substitutes, or "none"
    templateText,   \* templates: the text handed to it
    templateEnv,    \* templates: matrixVars, workflowEnv or tp.env, name -> text
    githubSha,      \* templates: GITHUB_SHA of the configuration or environment
    substituted,    \* templates: the text the function returned
    templateDone,   \* templates: the function has returned
    stepLevel,      \* steps: "job" for the steps of a job, "action" for the
                    \* sub-steps of a composite action a job step uses
    metaInputs,     \* steps: the inputs of the action metadata, name ->
                    \* [required, default]
    stepWith,       \* steps: the with map of the calling step, name -> text
    githubToken,    \* steps: GITHUB_TOKEN of the process environment
    actionSteps,    \* steps: the steps of the job or of the action
    actionPc,       \* steps: "idle", "loop" (inside the step loop), "returned"
    inputs,         \* steps: the inputs map the expressions are evaluated with
    actionEnv,      \* steps: the INPUT_* variables of the child environment
    stepOutputs,    \* steps: the step-output table, id -> (key -> value)
    githubOutput,   \* steps: the lines of the GITHUB_OUTPUT file
    ranSteps,       \* steps: the steps handled so far, in the order handled
    actionErr,      \* steps: why the action or the step loop failed, or "none"
    jobOutcome,     \* steps: what the job's step loop returned: "none", "ok", "fail"
    wfName,         \* parsing: the name of the workflow document, "" when absent
    wfJobs,         \* parsing: the jobs of the document, ID -> [runsOn, steps]
    parseResult,    \* parsing: "none", "ok" or "ParseError"
    reachedSteps,   \* parsing: the steps <<job, index>> the step loops were given
    otherNeeds,     \* matrix: the needs list of the second job
    actionUses,     \* recursion: action -> the action its last step uses, or "none"
    callChain,      \* recursion: the references being executed, the innermost last
    recursionPos,   \* recursion: where the innermost invocation is, or its result
    recursionResult,  \* recursion: what the job's step got: "none", "ok", "fail"
    invSteps,       \* overlap: invocation -> the keys its commands write, in order
    invPc,          \* overlap: invocation -> where it is, "idle" to "returned"
    invDone,        \* overlap: invocation -> the number of its steps that have run
    invOutputs,     \* overlap: invocation -> the records collected as its outputs
    invResult,      \* overlap: invocation -> "none", "ok", "fail"
    tmpDirExists,   \* overlap: /tmp/vermont-action-<reference> exists
    githubOutputFile,  \* overlap: the records in <tmpDir>/github_output
    templatePc      \* templates: position in substituteWorkflowTemplates

vars == <<engine, needs, maxConcurrent, pc, result, status, completedJobs,
          semaphore, errorChan, wg, completed, inProgress, results, phase,
          stepsRun, jobErr, exited, stepLog, mutex, workspace,
          pipelineDirExists, gitAvailable, actionFile, pcR, cacheTree,
          tempTree, fetches, hit, outcomeR, matrixDims, excludeList,
          includeList, otherJob, expanded, expandedJobs, assignments,
          originalJob, clonedJobs, substituter, templateText, templateEnv,
          githubSha, substituted, templateDone, stepLevel, metaInputs,
          stepWith, githubToken, actionSteps, actionPc, inputs, actionEnv,
          stepOutputs, githubOutput, ranSteps, actionErr, jobOutcome, wfName,
          wfJobs, parseResult, reachedSteps, otherNeeds, actionUses,
          callChain, recursionPos, recursionResult, invSteps, invPc, invDone,
          invOutputs, invResult, tmpDirExists, githubOutputFile, templatePc>>

inputVars == <<engine, needs, maxConcurrent>>
pkgVars   == <<status, completedJobs, semaphore, errorChan, wg>>
mainVars  == <<completed, inProgress, results, exited>>
\* What a job's execution leaves behind: the step log and its directory.
traceVars == <<stepLog, workspace>>
\* The state of the scheduler and its workers, without the choice of engine.
schedulerVars == <<needs, maxConcurrent, pc, result, pkgVars, mainVars, phase,
                   stepsRun, jobErr, traceVars, mutex, pipelineDirExists>>
\* The action cache and the resolutions of one action reference.
cacheVars == <<gitAvailable, actionFile, pcR, cacheTree, tempTree, fetches,
               hit, outcomeR>>
\* The workflow before and after matrix expansion.
matrixVars == <<matrixDims, excludeList, includeList, otherJob, otherNeeds, expanded,
                expandedJobs, assignments, originalJob, clonedJobs>>
\* A text and the function that substitutes its ${{ ... }} expressions.
templateVars == <<substituter, templateText, templateEnv, githubSha,
                  substituted, templateDone, templatePc>>
\* The steps of a job or of a composite action, and their execution.
actionVars == <<stepLevel, metaInputs, stepWith, githubToken, actionSteps,
                actionPc, inputs, actionEnv, stepOutputs, githubOutput,
                ranSteps, actionErr, jobOutcome>>
\* The workflow document and what became of it.
parseVars == <<wfName, wfJobs, parseResult, reachedSteps>>
\* The actions that use each other and the invocations under way.
recursionVars == <<actionUses, callChain, recursionPos, recursionResult>>
\* Two invocations of one action reference and their temporary directory.
overlapVars == <<invSteps, invPc, invDone, invOutputs, invResult,
                 tmpDirExists, githubOutputFile>>
\* Everything the schedulers do not touch.
nonSchedulerVars == <<cacheVars, matrixVars, templateVars, actionVars,
    parseVars, recursionVars, overlapVars>>
\* Everything the action resolver does not touch.
nonCacheVars == <<engine, schedulerVars, matrixVars, templateVars, actionVars,
    parseVars, recursionVars, overlapVars>>
\* Everything the matrix expansion does not touch.
nonMatrixVars == <<engine, schedulerVars, cacheVars, templateVars, actionVars,
    parseVars, recursionVars, overlapVars>>
\* Everything a substitution does not touch.
nonTemplateVars == <<engine, schedulerVars, cacheVars, matrixVars, actionVars,
    parseVars, recursionVars, overlapVars>>
\* Everything parsing does not touch.
nonParseVars == <<engine, schedulerVars, cacheVars, matrixVars, templateVars,
                  actionVars, recursionVars, overlapVars>>
\* Everything nested invocations of actions do not touch.
nonRecursionVars == <<engine, schedulerVars, cacheVars, matrixVars,
                      templateVars, actionVars, parseVars, overlapVars>>
\* Everything invocations of one action reference do not touch.
nonOverlapVars == <<engine, schedulerVars, cacheVars, matrixVars,
                    templateVars, actionVars, parseVars, recursionVars>>
\* Everything the execution of steps does not touch.
nonActionVars == <<engine, schedulerVars, cacheVars, matrixVars, templateVars,
    parseVars, recursionVars, overlapVars>>

\* ---------------------------------------------------------------- statuses
JobStatusPending   == "Pending"
JobStatusReady     == "Ready"
JobStatusRunning   == "Running"
JobStatusCompleted == "Completed"
JobStatusFailed    == "Failed"
JobStatusSkipped   == "Skipped"

\* ------------------------------------------------ dependency validation
\* First loop of validateDependencies / the whole of validateJobDependencies:
\* some needs entry names an ID that is not a key of the jobs map.
HasMissingDependency ==
    \E j \in JobIDs : \E d \in needs[j] : d \notin JobIDs

RECURSIVE hasCycle(_, _, _)
RECURSIVE hasCycleDeps(_, _, _, _)
\* The loop over jobState.Dependencies inside hasCycle; rest is what remains
\* to be iterated.  Returns the answer with the updated visited and recStack.
hasCycleDeps(jobID, rest, visited, recStack) ==
    IF rest = {}
    THEN [cyc |-> FALSE, visited |-> visited, recStack |-> recStack \ {jobID}]
    ELSE LET depID == CHOOSE d \in rest : TRUE IN
         IF depID \notin visited
         THEN LET sub == hasCycle(depID, visited, recStack) IN
              IF sub.cyc
              THEN sub
              ELSE hasCycleDeps(jobID, rest \ {depID}, sub.visited, sub.recStack)
         ELSE IF depID \in recStack
              THEN [cyc |-> TRUE, visited |-> visited, recStack |-> recStack]
              ELSE hasCycleDeps(jobID, rest \ {depID}, visited, recStack)

\* hasCycle: depth-first search with a recursion stack.
hasCycle(jobID, visited, recStack) ==
    hasCycleDeps(jobID, needs[jobID], visited \cup {jobID}, recStack \cup {jobID})

RECURSIVE cycleLoop(_, _, _)
\* Second loop of validateDependencies: start a search from every job that
\* has not been visited yet.
cycleLoop(rest, visited, recStack) ==
    IF rest = {}
    THEN FALSE
    ELSE LET jobID == CHOOSE j \in rest : TRUE IN
         IF jobID \notin visited
         THEN LET r == hasCycle(jobID, visited, recStack) IN
              IF r.cyc THEN TRUE
              ELSE cycleLoop(rest \ {jobID}, r.visited, r.recStack)
         ELSE cycleLoop(rest \ {jobID}, visited, recStack)

\* validateDependencies without its search for cycles.
validateDependencies_NoCycleCheck ==
    IF HasMissingDependency THEN "MissingDependency" ELSE "ok"

\* validateDependencies of the package scheduler: the error it returns.
validateDependencies ==
    IF HasMissingDependency THEN "MissingDependency"
    ELSE IF cycleLoop(JobIDs, {}, {}) THEN "CircularDependency"
    ELSE "ok"

\* validateJobDependencies without its existence check.
validateJobDependencies_NoCheck == "ok"

\* validateJobDependencies of main.go: only the existence check.
validateJobDependencies ==
    IF HasMissingDependency THEN "MissingDependency" ELSE "ok"

\* ------------------------------------------------------------ ready sets
\* areDependenciesMet without the completedJobs lookup: only a Failed
\* dependency holds the job back.
areDependenciesMet_NoCompletedCheck(j) ==
    \A depID \in needs[j] :
        depID \in JobIDs => status[depID] # JobStatusFailed

\* areDependenciesMet: every dependency is in completedJobs and not Failed.
areDependenciesMet(j) ==
    \A depID \in needs[j] :
        /\ depID \in completedJobs
        /\ (depID \in JobIDs => status[depID] # JobStatusFailed)

\* getReadyJobs: the Pending jobs whose dependencies are met.
getReadyJobs == {j \in JobIDs : status[j] = JobStatusPending /\ areDependenciesMet(j)}

\* getPendingJobs, evaluated on a status map st.
getPendingJobs(st) == {j \in JobIDs : st[j] = JobStatusPending}

\* A lookup in a Go map[string]bool: false for an absent key.
MapGet(m, k) == IF k \in DOMAIN m THEN m[k] ELSE FALSE

\* findReadyJobs of main.go without the test of inProgress.
findReadyJobs_NoInProgress ==
    {j \in JobIDs :
        /\ ~(j \in completed)
        /\ \A dep \in needs[j] : dep \in completed}

\* findReadyJobs of main.go.
findReadyJobs ==
    {j \in JobIDs :
        /\ ~(j \in completed \/ MapGet(inProgress, j))
        /\ \A dep \in needs[j] : dep \in completed}

\* ------------------------------------------------------------ directories
\* A path is the sequence of its components.
NoDir == <<>>
\* config.Runner.WorkDir, the default "/tmp/vermont-runner".
WorkDir == <<"tmp", "vermont-runner">>
\* createPipelineDir: /tmp/<workflow name>-<random suffix>, one per run.
PipelineDir == <<"tmp", "workflow-000000">>
\* executeJobs: stepsDir = filepath.Join(pipelineDir, "steps").
StepsDir == Append(PipelineDir, "steps")
\* executeJobSync: jobDir = filepath.Join(pipelineDir, jobName).
JobDir(j) == Append(PipelineDir, j)

\* ------------------------------------------------------------------ mutex
\* sync.RWMutex: at most one writer, or any number of readers.
MutexFree == [writer |-> "none", readers |-> {}]
CanLock   == mutex.writer = "none" /\ mutex.readers = {}
CanRLock  == mutex.writer = "none"

\* ------------------------------------------------------------------ Init
\* --------------------------------------------------- the action cache
\* The resolutions of one remote action reference owner/name@ref.  With the
\* package executor they are steps of jobs that may run at the same time and
\* share <cacheDir>/actions/owner/name/ref; with main.go the directory is
\* stepsDir/owner_repo_ref_<jobName>, so they are steps of one job.
Resolvers == {"r1", "r2"}

\* A directory on disk: absent, an empty directory, or a tree written by the
\* git clone of resolution "by": the revision checked out, whether the clone
\* has finished, whether .git is still there, and the metadata file it holds.
Absent ==
    [kind |-> "absent", by |-> "none", rev |-> "none", complete |-> FALSE,
     git |-> FALSE, file |-> "none"]
EmptyDir == [Absent EXCEPT !.kind = "empty"]
PartialTree(r, rev) ==
    [kind |-> "tree", by |-> r, rev |-> rev, complete |-> FALSE, git |-> TRUE,
     file |-> "none"]
CompleteTree(r, rev) ==
    [kind |-> "tree", by |-> r, rev |-> rev, complete |-> TRUE, git |-> TRUE,
     file |-> actionFile]
\* createPlaceholderAction: a directory holding a generated action.yml.
PlaceholderTree(r) ==
    [kind |-> "tree", by |-> r, rev |-> "placeholder", complete |-> TRUE,
     git |-> FALSE, file |-> "yml"]

\* isActionCached looking for action.yml only.
isActionCached_YmlOnly(tree) == tree.file = "yml"

\* Manager.isActionCached: action.yml or action.yaml is present.
isActionCached(tree) == tree.file \in {"yml", "yaml"}

\* cloneAction of main.go: os.Stat(actionDir) succeeds.
actionDirExists(tree) == tree.kind # "absent"

\* No resolution has started and the cache is cold.
CacheIdle ==
    /\ pcR = [r \in Resolvers |-> "idle"]
    /\ cacheTree = Absent
    /\ tempTree = Absent
    /\ fetches = [r \in Resolvers |-> 0]
    /\ hit = [r \in Resolvers |-> FALSE]
    /\ outcomeR = [r \in Resolvers |-> "none"]

\* ------------------------------------------------------ matrix expansion
\* The workflow that is expanded: a job "build" with strategy.matrix and,
\* optionally, a second job without a matrix.
MatrixJob == "build"
OtherJobIDs == {"build_0", "build (os: 1)"}

\* A YAML scalar is held as interface{}: its dynamic type and, in s, what
\* fmt prints for it with %v.  An entry of include or exclude is a map, m.
Scalar(t, s) == [t |-> t, s |-> s, m |-> <<>>]
Nil == Scalar("nil", "<nil>")
MatrixKeys == {"os", "v"}
MatrixValues == {Scalar("int", "1"), Scalar("string", "x")}
\* The key of an include entry that is no dimension, and values no
\* dimension has.
ExtraKey == "extra"
OffValues == {Scalar("string", "y"), Scalar("string", "z")}

\* The value lists of a dimension, the matrices, and the exclude and include
\* entries explored.
DimLists ==
    {<<x>> : x \in MatrixValues}
        \cup {l \in {<<x, y>> : x, y \in MatrixValues} : l[1] # l[2]}
MatrixDimsSet ==
    {d \in UNION {[K -> DimLists] : K \in SUBSET MatrixKeys} :
        "v" \in DOMAIN d => d["v"][1] = Scalar("int", "1")}
ExcludeEntries ==
    [{"os"} -> {Scalar("int", "1")}]
        \cup {e \in [MatrixKeys -> MatrixValues] : e["os"] = e["v"]}
IncludeEntries ==
    [{"os"} -> {Scalar("int", "1")} \cup OffValues]
        \cup [{"os", ExtraKey} -> {Scalar("int", "1")}]
        \cup [{ExtraKey} -> {Scalar("int", "1")}]
ListsUpToTwo(S) == {<<>>} \cup {<<x>> : x \in S} \cup {<<x, y>> : x, y \in S}

\* Text is a sequence of lexemes: the opening "${{", the closing "}}", a
\* space, a literal word, or a reference <context>.<name>.
Lex(kind, a, b) == [kind |-> kind, a |-> a, b |-> b]
Open == Lex("${{", "", "")
Close == Lex("}}", "", "")
Sp == Lex(" ", "", "")
Lit(w) == Lex("lit", w, "")
Ref(ctx, name) == Lex("ref", ctx, name)
\* fmt.Sprintf("${{ matrix.%s }}", key) and the placeholders like it.
Token(ctx, name) == <<Open, Sp, Ref(ctx, name), Sp, Close>>

\* The fields of a job as the parser leaves them, named by their YAML path
\* (one step, one key in every map); a field with the zero value has no
\* entry.  main.go and pkg/workflow declare different structs.
MainStepTextPaths ==
    {"steps.0.name", "steps.0.run", "steps.0.uses", "steps.0.with.arg",
     "steps.0.env.VAR"}
MainJobPaths ==
    {"runs-on", "needs", "strategy", "if", "outputs", "environment"}
        \cup MainStepTextPaths
PkgTextPaths ==
    {"env.VAR", "steps.0.name", "steps.0.run", "steps.0.uses", "steps.0.if",
     "steps.0.with.arg", "steps.0.env.VAR"}
PkgJobPaths ==
    {"name", "runs-on", "needs", "if", "strategy", "container", "services",
     "outputs", "timeout-minutes", "defaults", "steps.0.id", "steps.0.shell",
     "steps.0.working-directory", "steps.0.timeout-minutes",
     "steps.0.continue-on-error"} \cup PkgTextPaths
JobPaths(e) == IF e = "main" THEN MainJobPaths ELSE PkgJobPaths
\* The text of the field at path p: it names its field and refers to the
\* matrix variable os.
FieldText(p) == <<Lit(p), Sp>> \o Token("matrix", "os")
\* A job with the fields it needs, and a job with every field set.
PlainJob == [p \in {"runs-on", "strategy", "steps.0.run"} |-> FieldText(p)]
FullJob(e) == [p \in JobPaths(e) |-> FieldText(p)]

\* Nothing has been expanded.
MatrixNotExpanded ==
    /\ expanded = FALSE
    /\ expandedJobs = <<>>
    /\ assignments = {}
    /\ clonedJobs = {}

\* The workflow of the scheduler and resolver specifications has no matrix.
MatrixIdle ==
    /\ matrixDims = <<>>
    /\ excludeList = <<>>
    /\ includeList = <<>>
    /\ otherJob = "none"
    /\ otherNeeds = {}
    /\ originalJob = <<>>
    /\ MatrixNotExpanded

\* ------------------------------------------------- template substitution
\* The names the texts refer to, as matrix.<name> or env.<name>.
TemplateNames == {"A", "B"}
\* The context a function looks its names up in.
ContextOf(f) == IF f = "substituteMatrixVars" THEN "matrix" ELSE "env"
\* The functions that substitute: two of main.go and one of pkg/actions.
Substituters ==
    {"substituteMatrixVars", "substituteWorkflowTemplates", "ProcessTemplate"}
\* The texts explored: a command with references to A, to B and to
\* github.sha.
TemplateTexts(ctx) ==
    {Token(ctx, "A"),
     Token(ctx, "A") \o <<Sp>> \o Token(ctx, "B"),
     <<Lit("echo"), Sp>> \o Token(ctx, "B"),
     <<Lit("echo"), Sp>> \o Token("github", "sha"),
     <<Lit("echo")>>}
\* The values explored: plain text, or text that holds an expression
\* itself.  Only A refers to B, so that no value leads back to itself.
ValuesOfA(ctx) == {<<Lit("x")>>, Token(ctx, "B"), Token("github", "sha")}
ValuesOfB == {<<Lit("y")>>, Token("github", "sha")}
TemplateEnvs(ctx) ==
    {[n \in {"A"} |-> a] : a \in ValuesOfA(ctx)}
        \cup {[n \in TemplateNames |-> IF n = "A" THEN a ELSE b] :
                a \in ValuesOfA(ctx), b \in ValuesOfB}
\* GITHUB_SHA: not set, or a commit.
ShaValues == {<<>>, <<Lit("abc")>>}

\* No text is being substituted.
TemplateIdle ==
    /\ substituter = "none"
    /\ templateText = <<>>
    /\ templateEnv = <<>>
    /\ githubSha = <<>>
    /\ substituted = <<>>
    /\ templateDone = FALSE
    /\ templatePc = "none"

\* No step list is being executed.
ActionIdle ==
    /\ stepLevel = "none"
    /\ metaInputs = <<>>
    /\ stepWith = <<>>
    /\ githubToken = <<>>
    /\ actionSteps = <<>>
    /\ actionPc = "idle"
    /\ inputs = <<>>
    /\ actionEnv = <<>>
    /\ stepOutputs = <<>>
    /\ githubOutput = <<>>
    /\ ranSteps = <<>>
    /\ actionErr = "none"
    /\ jobOutcome = "none"

\* No document is being parsed.
ParseIdle ==
    /\ wfName = ""
    /\ wfJobs = <<>>
    /\ parseResult = "none"
    /\ reachedSteps = {}

\* No action uses another action.
RecursionIdle ==
    /\ actionUses = <<>>
    /\ callChain = <<>>
    /\ recursionPos = "none"
    /\ recursionResult = "none"

\* No composite action of the package executor is invoked.
OverlapIdle ==
    /\ invSteps = <<>>
    /\ invPc = <<>>
    /\ invDone = <<>>
    /\ invOutputs = <<>>
    /\ invResult = <<>>
    /\ tmpDirExists = FALSE
    /\ githubOutputFile = <<>>

Init ==
    /\ gitAvailable = TRUE /\ actionFile = "yml" /\ CacheIdle
    /\ MatrixIdle
    /\ TemplateIdle
    /\ ActionIdle
    /\ ParseIdle
    /\ RecursionIdle
    /\ OverlapIdle
    /\ engine \in {"pkg", "main"}
    /\ needs \in [JobIDs -> SUBSET (JobIDs \cup {Ghost})]
    /\ maxConcurrent \in 0..MaxConcurrentCap
    /\ pc = "start"
    /\ result = "none"
    /\ status = [j \in JobIDs |-> JobStatusPending]
    /\ completedJobs = {}
    /\ semaphore = 0
    /\ errorChan = <<>>
    /\ wg = 0
    /\ completed = {}
    /\ inProgress = <<>>
    /\ results = <<>>
    /\ phase = [j \in JobIDs |-> "none"]
    /\ stepsRun = [j \in JobIDs |-> 0]
    /\ jobErr = [j \in JobIDs |-> "none"]
    /\ exited = FALSE
    /\ stepLog = [j \in JobIDs |-> <<>>]
    /\ mutex = MutexFree
    /\ workspace = [j \in JobIDs |-> NoDir]
    /\ pipelineDirExists = FALSE

\* ------------------------------------------------- the package scheduler
\* ExecuteWorkflow up to the call of executeJobs: initializeJobs, then
\* validateDependencies.
ExecuteWorkflow ==
    /\ engine = "pkg" /\ pc = "start"
    /\ status' = [j \in JobIDs |-> JobStatusPending]
    /\ IF validateDependencies = "ok"
       THEN pc' = "loop" /\ result' = result
       ELSE pc' = "returned" /\ result' = validateDependencies
    /\ UNCHANGED <<nonSchedulerVars, inputVars, completedJobs, semaphore, errorChan, wg,
                   mainVars, phase, stepsRun, jobErr, traceVars, mutex,
                   pipelineDirExists>>

\* executeJobs, the loop condition: len(s.completedJobs) < len(s.jobs), read
\* without the lock; when it holds, getReadyJobs takes the read lock.
executeJobsCond ==
    /\ engine = "pkg" /\ pc = "loop"
    /\ IF Cardinality(completedJobs) < Cardinality(JobIDs)
       THEN /\ CanRLock
            /\ mutex' = [mutex EXCEPT !.readers = @ \cup {"sched"}]
            /\ pc' = "round" /\ result' = result
       ELSE /\ pc' = "returned" /\ result' = "success"
            /\ UNCHANGED mutex
    /\ UNCHANGED <<nonSchedulerVars, inputVars, pkgVars, mainVars, phase, stepsRun, jobErr,
                   traceVars, pipelineDirExists>>

\* executeJobs, the loop body up to wg.Wait(): getReadyJobs computes the
\* ready jobs and marks them Ready under the read lock, then the deadlock
\* test, then one goroutine per ready job.
executeJobsRound ==
    /\ engine = "pkg" /\ pc = "round"
    /\ mutex' = [mutex EXCEPT !.readers = @ \ {"sched"}]
    /\ LET readyJobs == getReadyJobs
           marked == [j \in JobIDs |->
                        IF j \in readyJobs THEN JobStatusReady ELSE status[j]]
       IN  IF readyJobs = {}
           THEN /\ pc' = "returned"
                /\ result' = IF getPendingJobs(marked) # {}
                             THEN "Deadlock" ELSE "success"
                /\ UNCHANGED <<status, wg, phase>>
           ELSE /\ status' = marked
                /\ wg' = wg + Cardinality(readyJobs)
                /\ phase' = [j \in JobIDs |->
                               IF j \in readyJobs THEN "waiting" ELSE phase[j]]
                /\ pc' = "wait"
                /\ result' = result
    /\ UNCHANGED <<nonSchedulerVars, inputVars, completedJobs, semaphore, errorChan, mainVars,
                   stepsRun, jobErr, traceVars, pipelineDirExists>>

\* Worker goroutine: semaphore <- struct{}{} on a channel of capacity
\* maxConcurrent.  With capacity 0 the channel is unbuffered and the send
\* needs a receiver, which no goroutine is.
WorkerAcquire(j) ==
    /\ engine = "pkg" /\ phase[j] = "waiting"
    /\ semaphore < maxConcurrent
    /\ semaphore' = semaphore + 1
    /\ phase' = [phase EXCEPT ![j] = "acquired"]
    /\ UNCHANGED <<nonSchedulerVars, inputVars, pc, result, status, completedJobs, errorChan, wg,
                   mainVars, stepsRun, jobErr, traceVars, mutex,
                   pipelineDirExists>>

\* JobScheduler.executeJob without s.mutex.Lock(): the worker enters its
\* critical sections whatever the state of the mutex.
WorkerLock_NoLock(j) ==
    /\ engine = "pkg" /\ phase[j] \in {"acquired", "finished"}
    /\ phase' = [phase EXCEPT ![j] = IF phase[j] = "acquired"
                                     THEN "beginCS" ELSE "endCS"]
    /\ UNCHANGED <<nonSchedulerVars, inputVars, pc, result, pkgVars, mainVars, stepsRun, jobErr,
                   traceVars, mutex, pipelineDirExists>>

\* JobScheduler.executeJob: s.mutex.Lock(), before either critical section.
WorkerLock(j) ==
    /\ engine = "pkg" /\ phase[j] \in {"acquired", "finished"}
    /\ CanLock
    /\ mutex' = [mutex EXCEPT !.writer = j]
    /\ phase' = [phase EXCEPT ![j] = IF phase[j] = "acquired"
                                     THEN "beginCS" ELSE "endCS"]
    /\ UNCHANGED <<nonSchedulerVars, inputVars, pc, result, pkgVars, mainVars, stepsRun, jobErr,
                   traceVars, pipelineDirExists>>

\* JobScheduler.executeJob without the assignment of JobStatusRunning in
\* its first critical section.
executeJobBegin_NoRunning(j) ==
    /\ engine = "pkg" /\ phase[j] = "beginCS"
    /\ mutex' = [mutex EXCEPT !.writer = "none"]
    /\ phase' = [phase EXCEPT ![j] = "steps"]
    /\ UNCHANGED <<nonSchedulerVars, inputVars, pc, result, status, completedJobs,
                   semaphore, errorChan, wg, mainVars, stepsRun, jobErr, traceVars,
                   pipelineDirExists>>

\* JobScheduler.executeJob, first critical section: Status = Running, Unlock.
executeJobBegin(j) ==
    /\ engine = "pkg" /\ phase[j] = "beginCS"
    /\ status' = [status EXCEPT ![j] = JobStatusRunning]
    /\ mutex' = [mutex EXCEPT !.writer = "none"]
    /\ phase' = [phase EXCEPT ![j] = "steps"]
    /\ UNCHANGED <<nonSchedulerVars, inputVars, pc, result, completedJobs, semaphore, errorChan,
                   wg, mainVars, stepsRun, jobErr, traceVars,
                   pipelineDirExists>>

\* The directory the steps of job j are given as /workspace: the package
\* executor passes config.Runner.WorkDir to RunStep, main.go the job directory.
StepWorkspace(j) == IF engine = "pkg" THEN WorkDir ELSE JobDir(j)

\* The step loop that does not return on a failed step: the error is noted
\* and the loop goes on with the next step.
ExecStep_ContinueAfterFailure(j) ==
    /\ phase[j] = "steps"
    /\ ~exited
    /\ stepsRun[j] < StepsPerJob
    /\ stepsRun' = [stepsRun EXCEPT ![j] = @ + 1]
    /\ workspace' = [workspace EXCEPT ![j] = StepWorkspace(j)]
    /\ \E ok \in BOOLEAN :
         /\ stepLog' = [stepLog EXCEPT ![j] = Append(@, <<stepsRun[j] + 1, ok>>)]
         /\ IF stepsRun[j] + 1 = StepsPerJob
            THEN /\ jobErr' = [jobErr EXCEPT ![j] =
                                 IF ok /\ \A k \in 1..Len(stepLog[j]) : stepLog[j][k][2]
                                 THEN "ok" ELSE "fail"]
                 /\ phase' = [phase EXCEPT ![j] = "finished"]
            ELSE UNCHANGED <<jobErr, phase>>
    /\ pipelineDirExists' = (pipelineDirExists \/ engine = "main")
    /\ UNCHANGED <<nonSchedulerVars, inputVars, pc, result, pkgVars, mainVars, mutex>>

\* The body of Executor.executeJob (pkg) or of executeJobSync/executeJobSteps
\* (main), one iteration of the step loop at a time: the step at the loop
\* index runs in the job's directory and succeeds or fails; a failure or the
\* end of the list ends the loop.  Before the first step the job set-up can
\* fail (Docker not available; job directory or runner image not obtained),
\* which ends the job with an error and no step executed.  In main.go the
\* job runs in jobDir under the per-run directory: os.MkdirAll(jobDir) and
\* every "docker run -v jobDir:/workspace" create the directory and its
\* missing parents.
ExecStep(j) ==
    /\ phase[j] = "steps"
    /\ ~exited
    /\ stepsRun[j] < StepsPerJob
    /\ \E outcome \in {"ok", "stepFailed", "setupFailed"} :
         CASE outcome = "setupFailed" ->
                /\ stepsRun[j] = 0
                /\ jobErr' = [jobErr EXCEPT ![j] = "fail"]
                /\ phase' = [phase EXCEPT ![j] = "finished"]
                /\ UNCHANGED <<stepsRun, traceVars, pipelineDirExists>>
           [] outcome = "stepFailed" ->
                /\ stepsRun' = [stepsRun EXCEPT ![j] = @ + 1]
                /\ stepLog' = [stepLog EXCEPT ![j] = Append(@, <<stepsRun[j] + 1, FALSE>>)]
                /\ workspace' = [workspace EXCEPT ![j] = StepWorkspace(j)]
                /\ pipelineDirExists' = (pipelineDirExists \/ engine = "main")
                /\ jobErr' = [jobErr EXCEPT ![j] = "fail"]
                /\ phase' = [phase EXCEPT ![j] = "finished"]
           [] outcome = "ok" ->
                /\ stepsRun' = [stepsRun EXCEPT ![j] = @ + 1]
                /\ stepLog' = [stepLog EXCEPT ![j] = Append(@, <<stepsRun[j] + 1, TRUE>>)]
                /\ workspace' = [workspace EXCEPT ![j] = StepWorkspace(j)]
                /\ pipelineDirExists' = (pipelineDirExists \/ engine = "main")
                /\ IF stepsRun[j] + 1 = StepsPerJob
                   THEN /\ jobErr' = [jobErr EXCEPT ![j] = "ok"]
                        /\ phase' = [phase EXCEPT ![j] = "finished"]
                   ELSE UNCHANGED <<jobErr, phase>>
    /\ UNCHANGED <<nonSchedulerVars, inputVars, pc, result, pkgVars, mainVars, mutex>>

\* JobScheduler.executeJob, second critical section, which leaves the status
\* of a failed job as it was.
executeJobEnd_NoFailedStatus(j) ==
    /\ engine = "pkg" /\ phase[j] = "endCS"
    /\ IF jobErr[j] = "fail"
       THEN UNCHANGED <<status, completedJobs>>
       ELSE /\ status' = [status EXCEPT ![j] = JobStatusCompleted]
            /\ completedJobs' = completedJobs \cup {j}
    /\ mutex' = [mutex EXCEPT !.writer = "none"]
    /\ phase' = [phase EXCEPT ![j] = "recorded"]
    /\ UNCHANGED <<nonSchedulerVars, inputVars, pc, result, semaphore, errorChan, wg, mainVars,
                   stepsRun, jobErr, traceVars, pipelineDirExists>>

\* JobScheduler.executeJob, second critical section: record the outcome, and
\* the deferred Unlock.
executeJobEnd(j) ==
    /\ engine = "pkg" /\ phase[j] = "endCS"
    /\ IF jobErr[j] = "fail"
       THEN /\ status' = [status EXCEPT ![j] = JobStatusFailed]
            /\ UNCHANGED completedJobs
       ELSE /\ status' = [status EXCEPT ![j] = JobStatusCompleted]
            /\ completedJobs' = completedJobs \cup {j}
    /\ mutex' = [mutex EXCEPT !.writer = "none"]
    /\ phase' = [phase EXCEPT ![j] = "recorded"]
    /\ UNCHANGED <<nonSchedulerVars, inputVars, pc, result, semaphore, errorChan, wg, mainVars,
                   stepsRun, jobErr, traceVars, pipelineDirExists>>

\* Worker goroutine after executeJob returned: errorChan <- err when err != nil
\* (capacity len(jobs), never blocks), then the deferred <-semaphore.
WorkerRelease(j) ==
    /\ engine = "pkg" /\ phase[j] = "recorded"
    /\ errorChan' = IF jobErr[j] = "fail" THEN Append(errorChan, j) ELSE errorChan
    /\ semaphore' = semaphore - 1
    /\ phase' = [phase EXCEPT ![j] = "released"]
    /\ UNCHANGED <<nonSchedulerVars, inputVars, pc, result, status, completedJobs, wg, mainVars,
                   stepsRun, jobErr, traceVars, mutex, pipelineDirExists>>

\* Worker goroutine: the deferred wg.Done().
WorkerDone(j) ==
    /\ engine = "pkg" /\ phase[j] = "released"
    /\ wg' = wg - 1
    /\ phase' = [phase EXCEPT ![j] = "done"]
    /\ UNCHANGED <<nonSchedulerVars, inputVars, pc, result, status, completedJobs, semaphore,
                   errorChan, mainVars, stepsRun, jobErr, traceVars, mutex,
                   pipelineDirExists>>

\* executeJobs after wg.Wait() returned, without the read of errorChan.
executeJobsAfterWait_NoErrorCheck ==
    /\ engine = "pkg" /\ pc = "wait"
    /\ wg = 0
    /\ pc' = "loop"
    /\ UNCHANGED <<nonSchedulerVars, inputVars, result, status, completedJobs, semaphore,
                   errorChan, wg, mainVars, phase, stepsRun, jobErr, traceVars,
                   mutex, pipelineDirExists>>

\* executeJobs after wg.Wait() returned: the non-blocking read of errorChan.
executeJobsAfterWait ==
    /\ engine = "pkg" /\ pc = "wait"
    /\ wg = 0
    /\ IF errorChan # <<>>
       THEN /\ result' = "JobFailed"
            /\ pc' = "returned"
            /\ errorChan' = Tail(errorChan)
       ELSE /\ pc' = "loop"
            /\ UNCHANGED <<result, errorChan>>
    /\ UNCHANGED <<nonSchedulerVars, inputVars, status, completedJobs, semaphore, wg, mainVars,
                   phase, stepsRun, jobErr, traceVars, mutex,
                   pipelineDirExists>>

\* ----------------------------------------------- the scheduler of main.go
\* executeWorkflow up to the loop of executeJobsWithDependencies: the
\* per-run directory and its steps directory are created, then
\* validateJobDependencies.
executeJobsWithDependencies ==
    /\ engine = "main" /\ pc = "start"
    /\ pipelineDirExists' = TRUE
    /\ IF validateJobDependencies = "ok"
       THEN pc' = "loop" /\ result' = result
       ELSE pc' = "returned" /\ result' = validateJobDependencies
    /\ UNCHANGED <<nonSchedulerVars, inputVars, pkgVars, mainVars, phase, stepsRun, jobErr,
                   traceVars, mutex>>

\* One evaluation of the loop condition and of the loop body up to the
\* receive on results.
mainRound ==
    /\ engine = "main" /\ pc = "loop"
    /\ IF ~(Cardinality(completed) < Cardinality(JobIDs))
       THEN /\ pc' = "returned" /\ result' = "success"
            /\ UNCHANGED <<inProgress, phase>>
       ELSE LET readyJobs == findReadyJobs IN
            IF readyJobs = {}
            THEN IF Cardinality(DOMAIN inProgress) = 0
                 THEN /\ pc' = "returned" /\ result' = "CircularOrStuck"
                      /\ UNCHANGED <<inProgress, phase>>
                 ELSE /\ pc' = "recv" /\ result' = result
                      /\ UNCHANGED <<inProgress, phase>>
            ELSE /\ inProgress' = [k \in DOMAIN inProgress \cup readyJobs |->
                                     IF k \in readyJobs THEN TRUE ELSE inProgress[k]]
                 /\ phase' = [j \in JobIDs |->
                                IF j \in readyJobs THEN "steps" ELSE phase[j]]
                 /\ pc' = "recv" /\ result' = result
    /\ UNCHANGED <<nonSchedulerVars, inputVars, pkgVars, completed, results, exited, stepsRun,
                   jobErr, traceVars, mutex, pipelineDirExists>>

\* Worker goroutine of main.go: results <- result (capacity len(jobs)).
mainWorkerSend(j) ==
    /\ engine = "main" /\ phase[j] = "finished"
    /\ ~exited
    /\ results' = Append(results, <<j, jobErr[j]>>)
    /\ phase' = [phase EXCEPT ![j] = "done"]
    /\ UNCHANGED <<nonSchedulerVars, inputVars, pc, result, pkgVars, completed, inProgress,
                   exited, stepsRun, jobErr, traceVars, mutex,
                   pipelineDirExists>>

\* result := <-results and the bookkeeping that follows it.
mainReceive ==
    /\ engine = "main" /\ pc = "recv"
    /\ results # <<>>
    /\ LET r == Head(results) IN
         /\ inProgress' = [k \in DOMAIN inProgress \cup {r[1]} |->
                             IF k = r[1] THEN FALSE ELSE inProgress[k]]
         /\ completed' = completed \cup {r[1]}
         /\ IF r[2] = "fail"
            THEN pc' = "returned" /\ result' = "JobFailed"
            ELSE pc' = "loop" /\ result' = result
    /\ results' = Tail(results)
    /\ UNCHANGED <<nonSchedulerVars, inputVars, pkgVars, exited, phase, stepsRun, jobErr,
                   traceVars, mutex, pipelineDirExists>>

\* executeWorkflow returns: the deferred os.RemoveAll(pipelineDir).
executeWorkflowCleanup ==
    /\ engine = "main" /\ pc = "returned"
    /\ pipelineDirExists' = FALSE
    /\ pc' = "cleaned"
    /\ UNCHANGED <<nonSchedulerVars, inputVars, result, pkgVars, mainVars, phase, stepsRun,
                   jobErr, traceVars, mutex>>

\* main(): executeWorkflow returned; log.Fatalf on an error, or the end of
\* main.  The process ends and with it every goroutine still running.
mainExit ==
    /\ engine = "main" /\ pc = "cleaned"
    /\ ~exited
    /\ exited' = TRUE
    /\ UNCHANGED <<nonSchedulerVars, inputVars, pc, result, pkgVars, completed, inProgress,
                   results, phase, stepsRun, jobErr, traceVars, mutex,
                   pipelineDirExists>>

Next ==
    \/ ExecuteWorkflow
    \/ executeJobsCond
    \/ executeJobsRound
    \/ \E j \in JobIDs : WorkerAcquire(j)
    \/ \E j \in JobIDs : WorkerLock(j)
    \/ \E j \in JobIDs : executeJobBegin(j)
    \/ \E j \in JobIDs : ExecStep(j)
    \/ \E j \in JobIDs : executeJobEnd(j)
    \/ \E j \in JobIDs : WorkerRelease(j)
    \/ \E j \in JobIDs : WorkerDone(j)
    \/ executeJobsAfterWait
    \/ executeJobsWithDependencies
    \/ mainRound
    \/ \E j \in JobIDs : mainWorkerSend(j)
    \/ mainReceive
    \/ executeWorkflowCleanup
    \/ mainExit

Spec == Init /\ [][Next]_vars

\* Every goroutine that can take a step eventually takes one (the Go
\* scheduler runs every runnable goroutine).
FairSpec == Spec /\ WF_vars(Next)

\* ------------------------------------------ resolving an action reference
\* The scheduler before the run, for the specifications of the other parts.
SchedulerIdle ==
    /\ needs = [j \in JobIDs |-> {}]
    /\ maxConcurrent = MaxConcurrentCap
    /\ pc = "start"
    /\ result = "none"
    /\ status = [j \in JobIDs |-> JobStatusPending]
    /\ completedJobs = {}
    /\ semaphore = 0
    /\ errorChan = <<>>
    /\ wg = 0
    /\ completed = {}
    /\ inProgress = <<>>
    /\ results = <<>>
    /\ phase = [j \in JobIDs |-> "none"]
    /\ stepsRun = [j \in JobIDs |-> 0]
    /\ jobErr = [j \in JobIDs |-> "none"]
    /\ exited = FALSE
    /\ stepLog = [j \in JobIDs |-> <<>>]
    /\ mutex = MutexFree
    /\ workspace = [j \in JobIDs |-> NoDir]
    /\ pipelineDirExists = FALSE

InitCache ==
    /\ engine \in {"pkg", "main"}
    /\ SchedulerIdle
    /\ gitAvailable \in BOOLEAN
    /\ actionFile \in {"yml", "yaml", "none"}
    /\ CacheIdle
    /\ MatrixIdle
    /\ TemplateIdle
    /\ ActionIdle
    /\ ParseIdle
    /\ RecursionIdle
    /\ OverlapIdle

\* A resolution returns an error to its caller.
ReturnError(r) ==
    /\ pcR' = [pcR EXCEPT ![r] = "done"]
    /\ outcomeR' = [outcomeR EXCEPT ![r] = "error"]

\* Manager.GetAction up to downloadAction: the cache check.
GetAction(r) ==
    /\ engine = "pkg" /\ pcR[r] = "idle"
    /\ IF isActionCached(cacheTree)
       THEN /\ hit' = [hit EXCEPT ![r] = TRUE]
            /\ pcR' = [pcR EXCEPT ![r] = "using"]
       ELSE /\ pcR' = [pcR EXCEPT ![r] = "download"]
            /\ UNCHANGED hit
    /\ UNCHANGED <<nonCacheVars, gitAvailable, actionFile, cacheTree, tempTree,
                   fetches, outcomeR>>

\* Manager.downloadAction: os.MkdirAll(action.LocalPath).
downloadAction(r) ==
    /\ engine = "pkg" /\ pcR[r] = "download"
    /\ cacheTree' = IF cacheTree.kind = "absent" THEN EmptyDir ELSE cacheTree
    /\ pcR' = [pcR EXCEPT ![r] = "remove"]
    /\ UNCHANGED <<nonCacheVars, gitAvailable, actionFile, tempTree, fetches,
                   hit, outcomeR>>

\* Manager.gitCloneAction: os.RemoveAll(localPath), then the choice between
\* git and the placeholder.
gitCloneAction(r) ==
    /\ engine = "pkg" /\ pcR[r] = "remove"
    /\ cacheTree' = Absent
    /\ pcR' = [pcR EXCEPT ![r] = IF gitAvailable THEN "clone" ELSE "placeholder"]
    /\ UNCHANGED <<nonCacheVars, gitAvailable, actionFile, tempTree, fetches,
                   hit, outcomeR>>

\* Manager.createPlaceholderAction: MkdirAll(localPath) and a generated
\* action.yml; the resolution returns without error.
createPlaceholderAction(r) ==
    /\ engine = "pkg" /\ pcR[r] = "placeholder"
    /\ cacheTree' = IF cacheTree.kind = "tree"
                    THEN [cacheTree EXCEPT !.file = "yml"]
                    ELSE PlaceholderTree(r)
    /\ pcR' = [pcR EXCEPT ![r] = "using"]
    /\ UNCHANGED <<nonCacheVars, gitAvailable, actionFile, tempTree, fetches,
                   hit, outcomeR>>

\* gitCloneWithCommand: git clone --depth 1 --branch version into tempDir
\* starts.  git refuses a destination that exists and is not empty; the
\* remote may not have the version as a branch or tag, or be unreachable.
gitCloneBegin(r) ==
    /\ engine = "pkg" /\ pcR[r] = "clone"
    /\ fetches' = [fetches EXCEPT ![r] = @ + 1]
    /\ \E ok \in BOOLEAN :
         IF ok /\ tempTree.kind = "absent"
         THEN /\ tempTree' = PartialTree(r, "ref")
              /\ pcR' = [pcR EXCEPT ![r] = "cloning"]
         ELSE /\ pcR' = [pcR EXCEPT ![r] = "clone2"]
              /\ UNCHANGED tempTree
    /\ UNCHANGED <<nonCacheVars, gitAvailable, actionFile, cacheTree, hit,
                   outcomeR>>

\* gitCloneWithCommand: the clone at the version finishes; it fails when its
\* destination was taken away while it was writing.
gitCloneEnd(r) ==
    /\ engine = "pkg" /\ pcR[r] = "cloning"
    /\ IF tempTree = PartialTree(r, "ref")
       THEN /\ tempTree' = CompleteTree(r, "ref")
            /\ pcR' = [pcR EXCEPT ![r] = "rename"]
       ELSE /\ pcR' = [pcR EXCEPT ![r] = "clone2"]
            /\ UNCHANGED tempTree
    /\ UNCHANGED <<nonCacheVars, gitAvailable, actionFile, cacheTree, fetches,
                   hit, outcomeR>>

\* gitCloneWithCommand: git clone --depth 1 of the default branch into
\* tempDir starts; when it fails the resolution returns the error and the
\* deferred os.RemoveAll(tempDir) runs.
gitCloneFallbackBegin(r) ==
    /\ engine = "pkg" /\ pcR[r] = "clone2"
    /\ fetches' = [fetches EXCEPT ![r] = @ + 1]
    /\ \E ok \in BOOLEAN :
         IF ok /\ tempTree.kind = "absent"
         THEN /\ tempTree' = PartialTree(r, "default")
              /\ pcR' = [pcR EXCEPT ![r] = "cloning2"]
              /\ UNCHANGED outcomeR
         ELSE /\ tempTree' = Absent
              /\ ReturnError(r)
    /\ UNCHANGED <<nonCacheVars, gitAvailable, actionFile, cacheTree, hit>>

\* gitCloneWithCommand: the clone of the default branch finishes, then
\* git checkout version, whose failure is only logged.
gitCloneFallbackEnd(r) ==
    /\ engine = "pkg" /\ pcR[r] = "cloning2"
    /\ IF tempTree = PartialTree(r, "default")
       THEN /\ \E checkedOut \in BOOLEAN :
                 tempTree' = CompleteTree(r, IF checkedOut THEN "ref" ELSE "default")
            /\ pcR' = [pcR EXCEPT ![r] = "rename"]
            /\ UNCHANGED outcomeR
       ELSE /\ tempTree' = Absent
            /\ ReturnError(r)
    /\ UNCHANGED <<nonCacheVars, gitAvailable, actionFile, cacheTree, fetches,
                   hit>>

\* gitCloneWithCommand: os.Rename(tempDir, localPath).  The rename fails
\* when tempDir is gone or localPath holds a tree; it moves whatever is at
\* tempDir otherwise.
gitCloneRename(r) ==
    /\ engine = "pkg" /\ pcR[r] = "rename"
    /\ IF tempTree.kind = "absent" \/ cacheTree.kind = "tree"
       THEN /\ tempTree' = Absent
            /\ ReturnError(r)
            /\ UNCHANGED cacheTree
       ELSE /\ cacheTree' = tempTree
            /\ tempTree' = Absent
            /\ pcR' = [pcR EXCEPT ![r] = "cleanup"]
            /\ UNCHANGED outcomeR
    /\ UNCHANGED <<nonCacheVars, gitAvailable, actionFile, fetches, hit>>

\* gitCloneWithCommand after the rename: os.RemoveAll(localPath/.git), and
\* the deferred os.RemoveAll(tempDir).
gitCloneCleanup(r) ==
    /\ engine = "pkg" /\ pcR[r] = "cleanup"
    /\ cacheTree' = IF cacheTree.kind = "tree"
                    THEN [cacheTree EXCEPT !.git = FALSE] ELSE cacheTree
    /\ tempTree' = Absent
    /\ pcR' = [pcR EXCEPT ![r] = "using"]
    /\ UNCHANGED <<nonCacheVars, gitAvailable, actionFile, fetches, hit,
                   outcomeR>>

\* cloneAction of main.go: the steps of a job run one after another; the
\* action is taken as cloned when its directory exists.
cloneAction(r) ==
    /\ engine = "main" /\ pcR[r] = "idle"
    /\ \A o \in Resolvers \ {r} : pcR[o] \in {"idle", "done"}
    /\ IF actionDirExists(cacheTree)
       THEN /\ hit' = [hit EXCEPT ![r] = TRUE]
            /\ pcR' = [pcR EXCEPT ![r] = "using"]
       ELSE /\ pcR' = [pcR EXCEPT ![r] = "clone"]
            /\ UNCHANGED hit
    /\ UNCHANGED <<nonCacheVars, gitAvailable, actionFile, cacheTree, tempTree,
                   fetches, outcomeR>>

\* cloneAction of main.go: git clone --depth 1 --branch ref into actionDir;
\* on failure os.RemoveAll(actionDir).
cloneActionShallow(r) ==
    /\ engine = "main" /\ pcR[r] = "clone"
    /\ fetches' = [fetches EXCEPT ![r] = @ + 1]
    /\ \E ok \in BOOLEAN :
         IF ok /\ gitAvailable
         THEN /\ cacheTree' = CompleteTree(r, "ref")
              /\ pcR' = [pcR EXCEPT ![r] = "using"]
         ELSE /\ cacheTree' = Absent
              /\ pcR' = [pcR EXCEPT ![r] = "clone2"]
    /\ UNCHANGED <<nonCacheVars, gitAvailable, actionFile, tempTree, hit,
                   outcomeR>>

\* cloneAction of main.go: the full clone into actionDir, then git checkout
\* ref; an error of either is returned, and what the clone wrote stays.
cloneActionFull(r) ==
    /\ engine = "main" /\ pcR[r] = "clone2"
    /\ fetches' = [fetches EXCEPT ![r] = @ + 1]
    /\ \E cloned \in BOOLEAN, checkedOut \in BOOLEAN :
         CASE ~(cloned /\ gitAvailable) ->
                /\ ReturnError(r)
                /\ UNCHANGED cacheTree
           [] cloned /\ gitAvailable /\ checkedOut ->
                /\ cacheTree' = CompleteTree(r, "ref")
                /\ pcR' = [pcR EXCEPT ![r] = "using"]
                /\ UNCHANGED outcomeR
           [] cloned /\ gitAvailable /\ ~checkedOut ->
                /\ cacheTree' = CompleteTree(r, "default")
                /\ ReturnError(r)
    /\ UNCHANGED <<nonCacheVars, gitAvailable, actionFile, tempTree, hit>>

\* The caller of the resolution reads the metadata file of the action
\* directory (actions.Executor.Execute: loadActionMetadata; main.go:
\* executeAction) and fails when there is none.
loadActionMetadata(r) ==
    /\ pcR[r] = "using"
    /\ outcomeR' = [outcomeR EXCEPT ![r] =
                      IF isActionCached(cacheTree) THEN "ok" ELSE "error"]
    /\ pcR' = [pcR EXCEPT ![r] = "done"]
    /\ UNCHANGED <<nonCacheVars, gitAvailable, actionFile, cacheTree, tempTree,
                   fetches, hit>>

NextCache ==
    \/ \E r \in Resolvers : GetAction(r)
    \/ \E r \in Resolvers : downloadAction(r)
    \/ \E r \in Resolvers : gitCloneAction(r)
    \/ \E r \in Resolvers : createPlaceholderAction(r)
    \/ \E r \in Resolvers : gitCloneBegin(r)
    \/ \E r \in Resolvers : gitCloneEnd(r)
    \/ \E r \in Resolvers : gitCloneFallbackBegin(r)
    \/ \E r \in Resolvers : gitCloneFallbackEnd(r)
    \/ \E r \in Resolvers : gitCloneRename(r)
    \/ \E r \in Resolvers : gitCloneCleanup(r)
    \/ \E r \in Resolvers : cloneAction(r)
    \/ \E r \in Resolvers : cloneActionShallow(r)
    \/ \E r \in Resolvers : cloneActionFull(r)
    \/ \E r \in Resolvers : loadActionMetadata(r)

SpecCache == InitCache /\ [][NextCache]_vars

\* ------------------------------------------- expanding the matrix of a job
\* The matrices explored.
MatrixInputs ==
    /\ engine \in {"pkg", "main"}
    /\ SchedulerIdle
    /\ TemplateIdle
    /\ ActionIdle
    /\ ParseIdle
    /\ RecursionIdle
    /\ OverlapIdle
    /\ gitAvailable = TRUE /\ actionFile = "yml" /\ CacheIdle
    /\ matrixDims \in MatrixDimsSet
    /\ excludeList \in ListsUpToTwo(ExcludeEntries)
    /\ includeList \in ListsUpToTwo(IncludeEntries)
    /\ otherJob \in {"none"} \cup OtherJobIDs
    /\ MatrixNotExpanded

InitMatrix ==
    /\ MatrixInputs
    /\ otherNeeds = {}
    /\ originalJob = PlainJob

\* strings.ReplaceAll on text: every occurrence of old, from the left and
\* without overlap, becomes new.
RECURSIVE ReplaceAll(_, _, _)
ReplaceAll(text, old, new) ==
    IF Len(text) < Len(old) THEN text
    ELSE IF SubSeq(text, 1, Len(old)) = old
         THEN new \o ReplaceAll(SubSeq(text, Len(old) + 1, Len(text)), old, new)
         ELSE <<Head(text)>> \o ReplaceAll(Tail(text), old, new)

\* fmt.Sprintf("%v", value) of every value of a combination, as text.
MatrixTexts(combination) ==
    [k \in DOMAIN combination |-> <<Lit(combination[k].s)>>]

\* An order in which a range over a map with key set S visits the keys.
RECURSIVE AnyOrder(_)
AnyOrder(S) ==
    IF S = {} THEN <<>>
    ELSE LET k == CHOOSE x \in S : TRUE IN <<k>> \o AnyOrder(S \ {k})

\* pkg/workflow substituteMatrixVariables, for the order in which the range
\* visits the variables: the placeholder of every variable is replaced by
\* its value, one variable after the other.
RECURSIVE substituteMatrixVariables(_, _, _)
substituteMatrixVariables(input, combination, order) ==
    IF order = <<>> THEN input
    ELSE substituteMatrixVariables(
             ReplaceAll(input, Token("matrix", Head(order)), combination[Head(order)]),
             combination, Tail(order))

\* strings.Index(result, "${{ matrix."): the first place (0: none) where
\* the text has "${{", a space and a reference into matrix.
IndexMatrixOpen(text) ==
    LET found == {i \in 1..(Len(text) - 2) :
                    /\ text[i] = Open /\ text[i + 1] = Sp
                    /\ text[i + 2].kind = "ref" /\ text[i + 2].a = "matrix"}
    IN  IF found = {} THEN 0 ELSE CHOOSE i \in found : \A j \in found : i <= j
\* strings.Index(result[start:], " }}"): the first place from start on
\* (0: none) where the text has a space and "}}".
IndexSpaceClose(text, start) ==
    LET found == {i \in start..(Len(text) - 1) :
                    text[i] = Sp /\ text[i + 1] = Close}
    IN  IF found = {} THEN 0 ELSE CHOOSE i \in found : \A j \in found : i <= j

\* main.go substituteMatrixVars, the second loop: what is left between
\* "${{ matrix." and the next " }}" is cut out, as often as there is one.
RECURSIVE removeMatrixVars(_)
removeMatrixVars(text) ==
    LET start == IndexMatrixOpen(text)
        end == IF start = 0 THEN 0 ELSE IndexSpaceClose(text, start)
    IN  IF start = 0 \/ end = 0 THEN text
        ELSE removeMatrixVars(SubSeq(text, 1, start - 1)
                                \o SubSeq(text, end + 2, Len(text)))

\* main.go substituteMatrixVars, for the order in which the range visits
\* the variables.
substituteMatrixVars(text, matrixValues, order) ==
    removeMatrixVars(substituteMatrixVariables(text, matrixValues, order))

\* main.go cloneSteps with cloneWithVars and cloneEnvVars: the fields of
\* the steps of the clone.  The values of the matrices explored hold no
\* placeholder, so that every order of the variables gives the same text.
cloneSteps(job, combination) ==
    [p \in DOMAIN job \cap MainStepTextPaths |->
        substituteMatrixVars(job[p], MatrixTexts(combination),
                             AnyOrder(DOMAIN combination))]

\* main.go expandMatrixJobs, matrixJob := &Job{RunsOn, Needs, Steps}.
matrixJob(job, combination) ==
    LET steps == cloneSteps(job, combination)
    IN  [p \in (DOMAIN job \cap {"runs-on", "needs"}) \cup DOMAIN steps |->
            IF p \in DOMAIN steps THEN steps[p] ELSE job[p]]

\* pkg/workflow cloneJobWithMatrixValues: every field but strategy is
\* copied, the texts with the matrix variables substituted.
cloneJobWithMatrixValues(job, combination) ==
    [p \in DOMAIN job \ {"strategy"} |->
        IF p \in PkgTextPaths
        THEN substituteMatrixVariables(job[p], MatrixTexts(combination),
                                       AnyOrder(DOMAIN combination))
        ELSE job[p]]

\* m[k] of a Go map: the zero value (nil) when the key is missing.
Lookup(m, k) == IF k \in DOMAIN m THEN m[k] ELSE Nil
\* m[k] = v
SetKey(m, k, v) == [x \in DOMAIN m \cup {k} |-> IF x = k THEN v ELSE m[x]]
\* The orders in which a range over a map with key set S can visit the keys.
KeyOrders(S) ==
    {o \in [1..Cardinality(S) -> S] :
        \A i, j \in 1..Cardinality(S) : i # j => o[i] # o[j]}
Range(list) == {list[i] : i \in 1..Len(list)}

\* main.go matchesCombination: every field of the pattern is in the
\* combination with an equal value.
matchesCombination(combination, pattern) ==
    \A key \in DOMAIN pattern : Lookup(combination, key) = pattern[key]

\* main.go matchesBaseDimensions: the include agrees with the combination
\* on every base dimension the include has.
matchesBaseDimensions(existing, include, baseDimensions) ==
    \A dim \in Range(baseDimensions) :
        dim \in DOMAIN include => Lookup(existing, dim) = include[dim]

\* main.go generateMatrixCombinations, the closure generate: the cartesian
\* product of the dimensions in the order of keys, without the combinations
\* an exclude entry matches.
RECURSIVE generate(_, _, _), generateValues(_, _, _, _)
generate(keys, index, current) ==
    IF index > Len(keys)
    THEN IF \E e \in 1..Len(excludeList) :
              matchesCombination(current, excludeList[e])
         THEN <<>> ELSE <<current>>
    ELSE generateValues(keys, index, current, 1)
generateValues(keys, index, current, vi) ==
    IF vi > Len(matrixDims[keys[index]]) THEN <<>>
    ELSE generate(keys, index + 1,
                  SetKey(current, keys[index], matrixDims[keys[index]][vi]))
           \o generateValues(keys, index, current, vi + 1)

\* main.go generateMatrixCombinations, the include loop from entry i on: an
\* include is merged into the first combination that matches its base
\* dimensions, or appended as a new combination.
RECURSIVE addIncludes(_, _, _)
addIncludes(combinations, keys, i) ==
    IF i > Len(includeList) THEN combinations
    ELSE LET include == includeList[i]
             matching == {n \in 1..Len(combinations) :
                            matchesBaseDimensions(combinations[n], include, keys)}
             extra == DOMAIN include \ Range(keys)
         IN  IF matching # {}
             THEN LET n == CHOOSE x \in matching : \A y \in matching : x <= y
                      merged == [k \in DOMAIN combinations[n] \cup extra |->
                                   IF k \in extra THEN include[k]
                                   ELSE combinations[n][k]]
                  IN  addIncludes([combinations EXCEPT ![n] = merged], keys, i + 1)
             ELSE addIncludes(Append(combinations, include), keys, i + 1)

\* main.go generateMatrixCombinations, for the order keys in which the range
\* over the dimensions visited them.
generateMatrixCombinations(keys) ==
    addIncludes(generate(keys, 1, <<>>), keys, 1)

\* main.go expandMatrixJobs: the ID of combination i of a job (i from 0).
matrixJobName(jobName, i) == jobName \o "_" \o ToString(i)

\* The jobs map that results from a set of assignments expandedJobs[id] = job:
\* one entry per ID; of several jobs assigned to one ID the last one stays,
\* and which one is last depends on the iteration order of the Go maps.
RECURSIVE ResultingMaps(_)
ResultingMaps(assigned) ==
    IF assigned = {} THEN {<<>>}
    ELSE LET id == (CHOOSE a \in assigned : TRUE).id
             sameID == {a \in assigned : a.id = id}
         IN  {SetKey(f, id, a.job) :
                 f \in ResultingMaps(assigned \ sameID), a \in sameID}

\* The assignment a job without a matrix gives rise to.
OtherAssignments ==
    IF otherJob = "none" THEN {}
    ELSE {[id |-> otherJob, job |-> otherJob, combination |-> <<>>]}

\* main.go expandMatrixJobs.  Every run of the program expands the workflow
\* it loaded, so the same jobs can be expanded again.
expandMatrixJobs ==
    /\ engine = "main"
    /\ \E keys \in KeyOrders(DOMAIN matrixDims) :
         LET combinations == generateMatrixCombinations(keys)
             assigned ==
                 {[id |-> matrixJobName(MatrixJob, i - 1), job |-> MatrixJob,
                   combination |-> combinations[i]] : i \in 1..Len(combinations)}
                 \cup OtherAssignments
         IN  /\ assignments' = assigned
             /\ expandedJobs' \in ResultingMaps(assigned)
             /\ clonedJobs' =
                  {[combination |-> combinations[i],
                    clone |-> matrixJob(originalJob, combinations[i])] :
                      i \in 1..Len(combinations)}
    /\ expanded' = TRUE
    /\ UNCHANGED <<nonMatrixVars, matrixDims, excludeList, includeList, otherJob,
                   otherNeeds, originalJob>>

\* fmt's %v of a map: map[k:v k:v], the keys sorted.
RECURSIVE formatMapFrom(_, _)
formatMapFrom(m, sortedKeys) ==
    IF sortedKeys = <<>> THEN ""
    ELSE LET k == Head(sortedKeys)
             rest == formatMapFrom(m, Tail(sortedKeys))
         IN  IF k \notin DOMAIN m THEN rest
             ELSE k \o ":" \o m[k].s \o (IF rest = "" THEN "" ELSE " " \o rest)
formatMap(m) == "map[" \o formatMapFrom(m, <<ExtraKey, "os", "v">>) \o "]"

\* An entry of include or exclude as a value of the matrix map.
MapValue(m) == [t |-> "map", s |-> formatMap(m), m |-> m]

\* pkg/workflow: the matrix map as generateCombinationsFromMap receives it:
\* every key of strategy.matrix, include and exclude among them, with its
\* list of values.
matrixMap ==
    LET present == DOMAIN matrixDims
                     \cup (IF excludeList # <<>> THEN {"exclude"} ELSE {})
                     \cup (IF includeList # <<>> THEN {"include"} ELSE {})
    IN  [k \in present |->
           IF k = "exclude" THEN [i \in 1..Len(excludeList) |-> MapValue(excludeList[i])]
           ELSE IF k = "include" THEN [i \in 1..Len(includeList) |-> MapValue(includeList[i])]
           ELSE matrixDims[k]]

\* pkg/workflow generateCombinationsRecursive: the combinations that extend
\* current by a value for every key in remaining; the key taken next is the
\* first one the range over the map visits.
RECURSIVE generateCombinationsRecursive(_, _, _)
generateCombinationsRecursive(mm, current, remaining) ==
    IF remaining = {} THEN {current}
    ELSE LET varName == CHOOSE k \in remaining : TRUE
         IN  UNION {generateCombinationsRecursive(
                        mm, SetKey(current, varName, value), remaining \ {varName}) :
                    value \in Range(mm[varName])}

\* pkg/workflow generateCombinationsFromMap: a matrix without keys has the
\* one empty combination.
generateCombinationsFromMap(mm) ==
    IF DOMAIN mm = {} THEN {<<>>}
    ELSE generateCombinationsRecursive(mm, <<>>, DOMAIN mm)

\* pkg/workflow formatMatrixCombination, for the order in which the range
\* over the combination visited its keys: "key: value" joined by ", ".
RECURSIVE formatMatrixCombination(_, _)
formatMatrixCombination(combination, order) ==
    IF order = <<>> THEN ""
    ELSE Head(order) \o ": " \o combination[Head(order)].s
           \o (IF Tail(order) = <<>> THEN ""
               ELSE ", " \o formatMatrixCombination(combination, Tail(order)))

\* pkg/workflow expandMatrixJob: the ID of the job of a combination.
expandedJobID(jobID, combination, order) ==
    jobID \o " (" \o formatMatrixCombination(combination, order) \o ")"

\* pkg/workflow Workflow.ExpandMatrixJobs with expandMatrixJob.
ExpandMatrixJobs ==
    /\ engine = "pkg"
    /\ LET combinations == generateCombinationsFromMap(matrixMap) IN
         \E order \in KeyOrders(DOMAIN matrixMap) :
           LET assigned ==
                   {[id |-> expandedJobID(MatrixJob, c, order), job |-> MatrixJob,
                     combination |-> c] : c \in combinations}
                   \cup OtherAssignments
           IN  /\ assignments' = assigned
               /\ expandedJobs' \in ResultingMaps(assigned)
    /\ clonedJobs' =
         {[combination |-> c,
           clone |-> cloneJobWithMatrixValues(originalJob, c)] :
             c \in generateCombinationsFromMap(matrixMap)}
    /\ expanded' = TRUE
    /\ UNCHANGED <<nonMatrixVars, matrixDims, excludeList, includeList, otherJob,
                   otherNeeds, originalJob>>

\* One run of the program: the workflow is expanded once.
NextMatrix ==
    \/ ~expanded /\ expandMatrixJobs
    \/ ~expanded /\ ExpandMatrixJobs

SpecMatrix == InitMatrix /\ [][NextMatrix]_vars

\* Several runs of the program on the same workflow file: a job "build"
\* with at most one exclude and one include entry, with the fields it needs
\* or with every field set, is expanded again and again.
InitMatrixAgain ==
    /\ MatrixInputs
    /\ Len(excludeList) <= 1
    /\ Len(includeList) <= 1
    /\ otherJob = "none"
    /\ otherNeeds = {}
    /\ originalJob \in {PlainJob, FullJob(engine)}

NextMatrixAgain ==
    \/ expandMatrixJobs
    \/ ExpandMatrixJobs

SpecMatrixAgain == InitMatrixAgain /\ [][NextMatrixAgain]_vars

\* A workflow whose second job, "deploy" or a job named like an expanded
\* job, needs nothing or needs job "build"; "build" needs nothing.  Every
\* needs list names an existing job.
NeedsJobIDs == {"deploy"} \cup OtherJobIDs
InitMatrixNeeds ==
    /\ engine \in {"pkg", "main"}
    /\ SchedulerIdle
    /\ TemplateIdle
    /\ ActionIdle
    /\ ParseIdle
    /\ RecursionIdle
    /\ OverlapIdle
    /\ gitAvailable = TRUE /\ actionFile = "yml" /\ CacheIdle
    /\ matrixDims \in MatrixDimsSet
    /\ excludeList \in {<<>>} \cup {<<x>> : x \in ExcludeEntries}
    /\ includeList = <<>>
    /\ otherJob \in NeedsJobIDs
    /\ otherNeeds \in SUBSET {MatrixJob}
    /\ originalJob = PlainJob
    /\ MatrixNotExpanded

\* The Needs field of a job of the workflow as parsed; both expansions copy
\* it into every clone (Needs: job.Needs).
NeedsOf(jobID) == IF jobID = MatrixJob THEN {} ELSE otherNeeds

SpecMatrixNeeds == InitMatrixNeeds /\ [][NextMatrix]_vars

\* --------------------------------------- substituting the ${{ }} of a text
InitTemplate ==
    /\ SchedulerIdle
    /\ gitAvailable = TRUE /\ actionFile = "yml" /\ CacheIdle
    /\ MatrixIdle
    /\ ActionIdle
    /\ ParseIdle
    /\ RecursionIdle
    /\ OverlapIdle
    /\ substituter \in Substituters
    /\ engine = (IF substituter = "ProcessTemplate" THEN "pkg" ELSE "main")
    /\ templateText \in TemplateTexts(ContextOf(substituter))
    /\ templateEnv \in TemplateEnvs(ContextOf(substituter))
    /\ githubSha \in ShaValues
    /\ substituted = <<>>
    /\ templateDone = FALSE
    /\ templatePc = "none"

\* strings.Index(s, lexeme) from place start on: 0 when there is none.
IndexFrom(text, lexeme, start) ==
    LET found == {i \in start..Len(text) : text[i] = lexeme}
    IN  IF found = {} THEN 0 ELSE CHOOSE i \in found : \A j \in found : i <= j

\* strings.TrimSpace
RECURSIVE TrimLeft(_)
TrimLeft(text) ==
    IF text # <<>> /\ Head(text) = Sp THEN TrimLeft(Tail(text)) ELSE text
RECURSIVE TrimRight(_)
TrimRight(text) ==
    IF text # <<>> /\ text[Len(text)] = Sp
    THEN TrimRight(SubSeq(text, 1, Len(text) - 1)) ELSE text
TrimSpace(text) == TrimRight(TrimLeft(text))

\* main.go substituteWorkflowTemplates, the first loop, for the order in
\* which the range visits workflowEnv: ${{ env.KEY }} becomes the value.
RECURSIVE substituteEnv(_, _, _)
substituteEnv(text, workflowEnv, order) ==
    IF order = <<>> THEN text
    ELSE substituteEnv(
             ReplaceAll(text, Token("env", Head(order)), workflowEnv[Head(order)]),
             workflowEnv, Tail(order))

\* configEnv[name], else os.Getenv(name): only GITHUB_SHA may be set.
configOrEnv(name) == IF name = "GITHUB_SHA" THEN githubSha ELSE <<>>
\* The same with the literal the code falls back to.
withFallback(value, fallback) == IF value = <<>> THEN fallback ELSE value

\* main.go substituteWorkflowTemplates, the switch: the replacement of the
\* expression found.
replacement(templateExpr, templateContent) ==
    IF \E i \in 1..Len(templateExpr) :
           templateExpr[i] \in {Ref("needs", "result"), Ref("needs", "outputs")}
    THEN IF \E i \in 1..Len(templateExpr) : templateExpr[i] = Ref("needs", "result")
         THEN <<Lit("success")>> ELSE <<Lit("unknown")>>
    ELSE IF templateContent = <<Ref("github", "repository")>>
    THEN withFallback(configOrEnv("GITHUB_REPOSITORY"), <<Lit("owner/repo")>>)
    ELSE IF templateContent = <<Ref("github", "token")>>
    THEN configOrEnv("GITHUB_TOKEN")
    ELSE IF templateContent = <<Ref("github", "ref")>>
    THEN withFallback(configOrEnv("GITHUB_REF"), <<Lit("refs/heads/main")>>)
    ELSE IF templateContent = <<Ref("github", "sha")>>
    THEN withFallback(configOrEnv("GITHUB_SHA"), <<Lit("unknown")>>)
    ELSE IF templateContent = <<Ref("github", "workspace")>>
    THEN withFallback(configOrEnv("GITHUB_WORKSPACE"), <<Lit("/workspace")>>)
    ELSE IF templateContent # <<>> /\ Head(templateContent).kind = "ref"
            /\ Head(templateContent).a = "github"
    THEN <<Lit("unknown")>>
    ELSE IF \E i \in 1..Len(templateContent) :
                templateContent[i] = Ref("runner", "debug")
    THEN <<Lit("false")>>
    ELSE <<>>

\* main.go substituteWorkflowTemplates, the second loop: the first ${{ of
\* the text up to the next }} is replaced, and the search starts over.
RECURSIVE substituteUnknown(_)
substituteUnknown(text) ==
    LET start == IndexFrom(text, Open, 1)
        end == IF start = 0 THEN 0 ELSE IndexFrom(text, Close, start)
    IN  IF start = 0 \/ end = 0 THEN text
        ELSE LET templateExpr == SubSeq(text, start, end)
                 templateContent == TrimSpace(SubSeq(text, start + 1, end - 1))
             IN  substituteUnknown(
                     SubSeq(text, 1, start - 1)
                       \o replacement(templateExpr, templateContent)
                       \o SubSeq(text, end + 1, Len(text)))

\* The second loop breaks: the text has no ${{, or no }} after the first.
loopBreaks(text) ==
    LET start == IndexFrom(text, Open, 1)
    IN  start = 0 \/ IndexFrom(text, Close, start) = 0

\* One turn of the second loop on a text on which it does not break.
loopTurn(text) ==
    LET start == IndexFrom(text, Open, 1)
        end == IndexFrom(text, Close, start)
    IN  SubSeq(text, 1, start - 1)
          \o replacement(SubSeq(text, start, end),
                         TrimSpace(SubSeq(text, start + 1, end - 1)))
          \o SubSeq(text, end + 1, Len(text))

\* main.go substituteWorkflowTemplates.
substituteWorkflowTemplates(text, workflowEnv, order) ==
    substituteUnknown(substituteEnv(text, workflowEnv, order))

\* The contexts steps.<id>.outputs of the step IDs of the model.
StepIDs == {"s1"}
OutputsOf(id) == "steps." \o id \o ".outputs"
StepsContexts == {OutputsOf(id) : id \in StepIDs}

\* pkg/actions TemplateProcessor.evaluateExpression, for a processor with
\* the maps tp.inputs, tp.env and tp.outputs.
evaluateExpression(expr, tpInputs, tpEnv, tpOutputs) ==
    IF expr = <<>> \/ Head(expr).kind # "ref"
    THEN <<Lit("${")>> \o expr \o <<Lit("}")>>
    ELSE IF Head(expr).a = "inputs"
    THEN IF Len(expr) = 1 /\ Head(expr).b \in DOMAIN tpInputs
         THEN tpInputs[Head(expr).b] ELSE <<>>
    ELSE IF Head(expr).a = "env"
    THEN IF Len(expr) = 1 /\ Head(expr).b \in DOMAIN tpEnv
         THEN tpEnv[Head(expr).b] ELSE <<>>
    ELSE IF Head(expr).a \in StepsContexts
    THEN IF <<Head(expr).a, Head(expr).b>> \in DOMAIN tpOutputs
         THEN tpOutputs[<<Head(expr).a, Head(expr).b>>] ELSE <<>>
    ELSE IF Head(expr).a = "runner"
    THEN IF expr = <<Ref("runner", "os")>> THEN <<Lit("Linux")>>
         ELSE IF expr = <<Ref("runner", "arch")>> THEN <<Lit("X64")>>
         ELSE <<>>
    ELSE IF Head(expr).a = "github"
    THEN IF expr = <<Ref("github", "sha")>> THEN <<Lit("abc123")>>
         ELSE IF expr = <<Ref("github", "ref")>> THEN <<Lit("refs/heads/main")>>
         ELSE <<>>
    ELSE <<Lit("${")>> \o expr \o <<Lit("}")>>

\* pkg/actions TemplateProcessor.ProcessTemplate: ReplaceAllStringFunc
\* with the expression \$\{\{\s*([^}]+)\s*\}\}: every match, from the left
\* and without overlap, becomes the value of its expression.
RECURSIVE ProcessTemplate(_, _, _, _)
ProcessTemplate(text, tpInputs, tpEnv, tpOutputs) ==
    IF text = <<>> THEN <<>>
    ELSE LET end == IF Head(text) = Open THEN IndexFrom(text, Close, 2) ELSE 0
         IN  IF end > 2
             THEN evaluateExpression(TrimSpace(SubSeq(text, 2, end - 1)),
                                     tpInputs, tpEnv, tpOutputs)
                    \o ProcessTemplate(SubSeq(text, end + 1, Len(text)),
                                       tpInputs, tpEnv, tpOutputs)
             ELSE <<Head(text)>>
                    \o ProcessTemplate(Tail(text), tpInputs, tpEnv, tpOutputs)

\* The text is substituted by the function chosen.
Substitute ==
    /\ substituter \in Substituters /\ ~templateDone
    /\ \E order \in KeyOrders(DOMAIN templateEnv) :
         substituted' =
            IF substituter = "substituteMatrixVars"
            THEN substituteMatrixVars(templateText, templateEnv, order)
            ELSE IF substituter = "substituteWorkflowTemplates"
            THEN substituteWorkflowTemplates(templateText, templateEnv, order)
            ELSE ProcessTemplate(templateText, <<>>, templateEnv, <<>>)
    /\ templateDone' = TRUE
    /\ UNCHANGED <<nonTemplateVars, substituter, templateText, templateEnv,
                   githubSha, templatePc>>

NextTemplate == Substitute

SpecTemplate == InitTemplate /\ [][NextTemplate]_vars

\* substituteWorkflowTemplates turn by turn.  GITHUB_SHA of the
\* configuration or of the process environment is unset, a revision, or
\* the text ${{ github.sha }}.
LoopShaValues == ShaValues \cup {Token("github", "sha")}
InitTemplateLoop ==
    /\ SchedulerIdle
    /\ gitAvailable = TRUE /\ actionFile = "yml" /\ CacheIdle
    /\ MatrixIdle
    /\ ActionIdle
    /\ ParseIdle
    /\ RecursionIdle
    /\ OverlapIdle
    /\ engine = "main"
    /\ substituter = "substituteWorkflowTemplates"
    /\ templateText \in TemplateTexts("env")
    /\ templateEnv \in TemplateEnvs("env")
    /\ githubSha \in LoopShaValues
    /\ substituted = <<>>
    /\ templateDone = FALSE
    /\ templatePc = "none"

\* The first loop, over workflowEnv.
substituteEnvLoop ==
    /\ templatePc = "none"
    /\ \E order \in KeyOrders(DOMAIN templateEnv) :
         substituted' = substituteEnv(templateText, templateEnv, order)
    /\ templatePc' = "loop"
    /\ UNCHANGED <<nonTemplateVars, substituter, templateText, templateEnv,
                   githubSha, templateDone>>

\* The second loop: it breaks and the function returns result, or one
\* expression of result is replaced and the loop starts over.
substituteUnknownTurn ==
    /\ templatePc = "loop"
    /\ IF loopBreaks(substituted)
       THEN /\ templatePc' = "returned" /\ templateDone' = TRUE
            /\ UNCHANGED substituted
       ELSE /\ substituted' = loopTurn(substituted)
            /\ UNCHANGED <<templatePc, templateDone>>
    /\ UNCHANGED <<nonTemplateVars, substituter, templateText, templateEnv,
                   githubSha>>

NextTemplateLoop ==
    \/ substituteEnvLoop
    \/ substituteUnknownTurn

SpecTemplateLoop == InitTemplateLoop /\ [][NextTemplateLoop]_vars

\* The function runs in a goroutine that is scheduled: a turn that is
\* possible is taken.
FairSpecTemplateLoop == SpecTemplateLoop /\ WF_vars(NextTemplateLoop)

\* ----------------------------------- the steps of a job or of an action
\* The "=" of a line of the GITHUB_OUTPUT file.
Eq == Lex("=", "", "")

\* The input names explored, with the variable that carries each:
\* "INPUT_" + strings.ToUpper(strings.ReplaceAll(name, "-", "_")).
InputNames == {"who_to_greet", "token"}
envNameOf(inputName) ==
    IF inputName \in {"who_to_greet", "who-to-greet"} THEN "INPUT_WHO_TO_GREET"
    ELSE "INPUT_TOKEN"
\* pkg/actions executeCompositeAction: the input name taken back from the
\* variable, strings.ToLower(strings.ReplaceAll(k[6:], "_", "-")).
inputNameOf(envName) ==
    IF envName = "INPUT_WHO_TO_GREET" THEN "who-to-greet" ELSE "token"

\* The maps from a part of the keys D to values of R.
PartialMaps(D, R) == UNION {[S -> R] : S \in SUBSET D}

\* inputs of the action metadata: every input is declared or not, required
\* or not, with a default or without ("" is no default).
DefaultValues == {<<>>, <<Lit("World")>>}
MetaInputSets == PartialMaps(InputNames, [required : BOOLEAN, default : DefaultValues])
\* with of the calling step: every input is given or not; "" can be given.
WithValues == {<<>>, <<Lit("Vermont")>>}
WithMaps == PartialMaps(InputNames, WithValues)
\* GITHUB_TOKEN of the process environment: not set, or a token.
TokenValues == {<<>>, <<Lit("ghs")>>}

\* The line "K=V" a step appends to the file $GITHUB_OUTPUT names.
OutputLine(k, v) == <<Lit(k), Eq>> \o v
\* The values V written: plain, ending in a space, holding a "=".
OutputValues == {<<Lit("v")>>, <<Lit("v"), Sp>>, <<Lit("a"), Eq, Lit("b")>>}

\* A step (workflow Step, or a step of runs.steps of action.yml): kind says
\* which of run and uses is set, writes is what the command of run appends
\* to $GITHUB_OUTPUT.
\* A step that echoes an input of the action.
Greet(inputName) ==
    [kind |-> "run", id |-> "",
     run |-> <<Lit("echo"), Sp>> \o Token("inputs", inputName), writes |-> <<>>]
\* A step that writes the record K=v.
WriteStep(id, v) ==
    [kind |-> "run", id |-> id, run |-> <<Lit("write")>>,
     writes |-> <<OutputLine("K", v)>>]
\* A step without an id that writes the record J=old.
WriteUnnamedStep ==
    [kind |-> "run", id |-> "", run |-> <<Lit("write")>>,
     writes |-> <<OutputLine("J", <<Lit("old")>>)>>]
\* A step that echoes the output K of step s1.
ReadStep ==
    [kind |-> "run", id |-> "",
     run |-> <<Lit("echo"), Sp>> \o Token(OutputsOf("s1"), "K"), writes |-> <<>>]
\* A step that uses another action.
NestedStep == [kind |-> "uses", id |-> "", run |-> <<>>, writes |-> <<>>]
\* A step with neither run nor uses.
EmptyStep == [kind |-> "none", id |-> "", run |-> <<>>, writes |-> <<>>]

\* runs.steps of the composite action.
ActionStepLists ==
    {<<>>,
     <<Greet("who_to_greet"), Greet("token")>>,
     <<NestedStep, EmptyStep, Greet("token")>>,
     <<WriteStep("", <<Lit("old")>>), WriteStep("s1", <<Lit("v")>>), ReadStep>>,
     <<WriteUnnamedStep, WriteStep("s1", <<Lit("v")>>), ReadStep>>}
      \cup {<<WriteStep("s1", v), ReadStep>> : v \in OutputValues}
\* steps of the job, when the job runs commands only.
JobStepLists ==
    {<<EmptyStep, ReadStep>>}
      \cup {<<WriteStep("s1", v), ReadStep>> : v \in OutputValues}

\* A job whose steps are run: either its steps are commands, or its one
\* step uses a composite action with the inputs and steps chosen.
InitAction ==
    /\ SchedulerIdle
    /\ gitAvailable = TRUE /\ actionFile = "yml" /\ CacheIdle
    /\ MatrixIdle
    /\ TemplateIdle
    /\ ParseIdle
    /\ RecursionIdle
    /\ OverlapIdle
    /\ engine \in {"pkg", "main"}
    /\ stepLevel \in {"job", "action"}
    /\ IF stepLevel = "job"
       THEN /\ metaInputs = <<>> /\ stepWith = <<>> /\ githubToken = <<>>
            /\ actionSteps \in JobStepLists
            /\ actionPc = "loop"
       ELSE /\ metaInputs \in MetaInputSets
            /\ stepWith \in WithMaps
            /\ githubToken \in TokenValues
            /\ actionSteps \in ActionStepLists
            /\ actionPc = "idle"
    /\ inputs = <<>>
    /\ actionEnv = <<>>
    /\ stepOutputs = <<>>
    /\ githubOutput = <<>>
    /\ ranSteps = <<>>
    /\ actionErr = "none"
    /\ jobOutcome = "none"

\* main.go expandEnvironmentVariables: a value of the form ${VAR} becomes
\* the value of VAR when that is set; GITHUB_TOKEN is the variable explored.
expandEnvironmentVariables(value) ==
    IF value = <<Lit("${GITHUB_TOKEN}")>> /\ githubToken # <<>>
    THEN githubToken ELSE value

\* main.go executeCompositeAction, the default of an input that the
\* calling step does not give.
defaultValue(inputName) ==
    IF inputName \in {"token", "github-token"} /\ metaInputs[inputName].default = <<>>
    THEN <<Lit("${GITHUB_TOKEN}")>>
    ELSE metaInputs[inputName].default

\* main.go executeCompositeAction, the inputs map before the step loop.
loadedInputs ==
    LET defaulted == {n \in DOMAIN metaInputs \ DOMAIN stepWith :
                          defaultValue(n) # <<>>}
    IN  [n \in DOMAIN stepWith \cup defaulted |->
            IF n \in DOMAIN stepWith
            THEN expandEnvironmentVariables(stepWith[n])
            ELSE substituteWorkflowTemplates(
                     expandEnvironmentVariables(defaultValue(n)), <<>>, <<>>)]

\* The INPUT_ variables of a map of inputs.
inputVariables(ins) ==
    [e \in {envNameOf(n) : n \in DOMAIN ins} |->
        ins[CHOOSE n \in DOMAIN ins : envNameOf(n) = e]]

\* main.go substituteActionTemplates, the first loop: ${{ inputs.NAME }}
\* of every input of the map becomes its value.
RECURSIVE substituteInputs(_, _, _)
substituteInputs(text, ins, order) ==
    IF order = <<>> THEN text
    ELSE substituteInputs(
             ReplaceAll(text, Token("inputs", Head(order)), ins[Head(order)]),
             ins, Tail(order))

\* The placeholder ${{ steps.ID.outputs.KEY }} of an entry of the table.
outputPlaceholder(id, key) ==
    IF Len(key) = 1 /\ key[1].kind = "lit"
    THEN Token(OutputsOf(id), key[1].a)
    ELSE <<Open, Sp, Lit(OutputsOf(id))>> \o key \o <<Sp, Close>>

\* main.go substituteActionTemplates, the second loop, over the entries
\* <<id, key>> of the step-output table.
RECURSIVE substituteOutputs(_, _, _)
substituteOutputs(text, outs, order) ==
    IF order = <<>> THEN text
    ELSE substituteOutputs(
             ReplaceAll(text, outputPlaceholder(Head(order)[1], Head(order)[2]),
                        outs[Head(order)[1]][Head(order)[2]]),
             outs, Tail(order))

\* The entries <<id, key>> of a step-output table.
outputEntries(outs) ==
    {p \in (DOMAIN outs) \X UNION {DOMAIN outs[i] : i \in DOMAIN outs} :
        p[2] \in DOMAIN outs[p[1]]}

\* main.go substituteActionTemplates.
substituteActionTemplates(text, ins, outs) ==
    substituteOutputs(substituteInputs(text, ins, AnyOrder(DOMAIN ins)), outs,
                      AnyOrder(outputEntries(outs)))

\* main.go parseStepOutputs: every line is trimmed; a line that is not
\* empty is split at its first "=" into name and value, later lines win.
RECURSIVE parseStepOutputs(_)
parseStepOutputs(lines) ==
    IF lines = <<>> THEN <<>>
    ELSE LET line == TrimSpace(lines[Len(lines)])
             eq == IndexFrom(line, Eq, 1)
             before == parseStepOutputs(SubSeq(lines, 1, Len(lines) - 1))
         IN  IF line = <<>> \/ eq = 0 THEN before
             ELSE (SubSeq(line, 1, eq - 1) :> SubSeq(line, eq + 1, Len(line)))
                    @@ before

\* The step loop without the return on a failed step: a variant of
\* StepHandled in which the loop goes on to the next step.
StepHandled_GoesOn(substitutedRun, env, ok) ==
    /\ ranSteps' = Append(ranSteps, [index |-> Len(ranSteps) + 1,
                                     run |-> substitutedRun, env |-> env,
                                     ok |-> ok])
    /\ IF Len(ranSteps) + 1 = Len(actionSteps)
       THEN actionPc' = "returned" /\ jobOutcome' = "ok"
              /\ UNCHANGED actionErr
       ELSE UNCHANGED <<actionPc, actionErr, jobOutcome>>

\* A step has been handled: it is recorded with the command and the
\* variables it was given; a failed step ends the loop with an error, which
\* executeJobSteps (pkg: Executor.executeJob) returns as the job's error;
\* after the last step the loop ends without error.
StepHandled(substitutedRun, env, ok) ==
    /\ ranSteps' = Append(ranSteps, [index |-> Len(ranSteps) + 1,
                                     run |-> substitutedRun, env |-> env,
                                     ok |-> ok])
    /\ IF ~ok
       THEN actionPc' = "returned" /\ actionErr' = "StepFailed"
              /\ jobOutcome' = "fail"
       ELSE IF Len(ranSteps) + 1 = Len(actionSteps)
       THEN actionPc' = "returned" /\ jobOutcome' = "ok"
              /\ UNCHANGED actionErr
       ELSE UNCHANGED <<actionPc, actionErr, jobOutcome>>

\* The step the loop handles next.
NextStep == actionSteps[Len(ranSteps) + 1]
\* The exit status of a command or of a nested action is the environment's
\* choice; a step with neither run nor uses does nothing.
Outcomes(step) == IF step.kind = "none" THEN {TRUE} ELSE BOOLEAN

\* main.go executeCompositeAction up to its step loop: the inputs are
\* taken from with and from the defaults of the metadata.
executeCompositeAction ==
    /\ engine = "main" /\ stepLevel = "action" /\ actionPc = "idle"
    /\ inputs' = loadedInputs
    /\ actionEnv' = inputVariables(loadedInputs)
    /\ IF actionSteps = <<>>
       THEN actionPc' = "returned" /\ jobOutcome' = "ok"
       ELSE actionPc' = "loop" /\ UNCHANGED jobOutcome
    /\ UNCHANGED <<nonActionVars, stepLevel, metaInputs, stepWith, githubToken,
                   actionSteps, stepOutputs, githubOutput, ranSteps, actionErr>>

\* main.go executeCompositeAction, one turn of its step loop:
\* executeActionRunStep for a command, executeAction for a nested action.
executeActionRunStep ==
    /\ engine = "main" /\ stepLevel = "action" /\ actionPc = "loop"
    /\ \E ok \in Outcomes(NextStep) :
         /\ StepHandled(substituteActionTemplates(NextStep.run, inputs, stepOutputs),
                        actionEnv, ok)
         /\ IF NextStep.kind = "run" /\ ok
            THEN LET written == githubOutput \o NextStep.writes IN
                 IF NextStep.id # ""
                 THEN /\ stepOutputs' =
                            (NextStep.id :> parseStepOutputs(written)) @@ stepOutputs
                      /\ githubOutput' = <<>>
                 ELSE /\ githubOutput' = written
                      /\ UNCHANGED stepOutputs
            ELSE UNCHANGED <<stepOutputs, githubOutput>>
    /\ UNCHANGED <<nonActionVars, stepLevel, metaInputs, stepWith, githubToken,
                   actionSteps, inputs, actionEnv>>

\* main.go executeJobSteps, one turn of its loop over the steps of a job:
\* executeRunStep for a command.  The command gets no GITHUB_OUTPUT file,
\* so what it writes there is kept nowhere.
executeRunStep ==
    /\ engine = "main" /\ stepLevel = "job" /\ actionPc = "loop"
    /\ \E ok \in Outcomes(NextStep) :
         StepHandled(substituteWorkflowTemplates(NextStep.run, <<>>, <<>>),
                     <<>>, ok)
    /\ UNCHANGED <<nonActionVars, stepLevel, metaInputs, stepWith, githubToken,
                   actionSteps, inputs, actionEnv, stepOutputs, githubOutput>>

\* pkg/actions Executor.validateInputs.
validateInputs(inputDefs, given) ==
    \A name \in DOMAIN inputDefs :
        inputDefs[name].required =>
            (name \in DOMAIN given \/ inputDefs[name].default # <<>>)

\* pkg/actions Executor.executeAction with createActionEnvironment and
\* executeCompositeAction up to its step loop; the inputs are the with map
\* Executor.executeJob hands over.
ExecuteAction ==
    /\ engine = "pkg" /\ stepLevel = "action" /\ actionPc = "idle"
    /\ IF ~validateInputs(metaInputs, stepWith)
       THEN /\ actionPc' = "returned" /\ actionErr' = "InputValidation"
            /\ jobOutcome' = "fail"
            /\ UNCHANGED <<inputs, actionEnv>>
       ELSE /\ actionEnv' = inputVariables(stepWith)
            /\ IF actionSteps = <<>>
               THEN /\ actionPc' = "returned" /\ actionErr' = "NoSteps"
                    /\ jobOutcome' = "fail"
                    /\ UNCHANGED inputs
               ELSE /\ inputs' = [n \in {inputNameOf(e) : e \in DOMAIN actionEnv'} |->
                                     actionEnv'[CHOOSE e \in DOMAIN actionEnv' :
                                                    inputNameOf(e) = n]]
                    /\ actionPc' = "loop"
                    /\ UNCHANGED <<actionErr, jobOutcome>>
    /\ UNCHANGED <<nonActionVars, stepLevel, metaInputs, stepWith, githubToken,
                   actionSteps, stepOutputs, githubOutput, ranSteps>>

\* pkg/actions Executor.executeCompositeAction, one turn of its step loop:
\* executeCompositeStep.  The outputs map of the template processor is
\* never written; after the last step the GITHUB_OUTPUT file is removed.
executeCompositeStep ==
    /\ engine = "pkg" /\ stepLevel = "action" /\ actionPc = "loop"
    /\ \E ok \in Outcomes(NextStep) :
         /\ StepHandled(ProcessTemplate(NextStep.run, inputs, actionEnv, stepOutputs),
                        actionEnv, ok)
         /\ githubOutput' =
              IF ok /\ Len(ranSteps) + 1 = Len(actionSteps) THEN <<>>
              ELSE IF ok /\ NextStep.kind = "run" THEN githubOutput \o NextStep.writes
              ELSE githubOutput
    /\ UNCHANGED <<nonActionVars, stepLevel, metaInputs, stepWith, githubToken,
                   actionSteps, inputs, actionEnv, stepOutputs>>

\* pkg/executor Executor.executeJob, one turn of its loop over the steps of
\* a job: container Manager.RunStep for a command, which is given step.Run
\* as written and no GITHUB_OUTPUT file.
RunStep ==
    /\ engine = "pkg" /\ stepLevel = "job" /\ actionPc = "loop"
    /\ \E ok \in Outcomes(NextStep) : StepHandled(NextStep.run, <<>>, ok)
    /\ UNCHANGED <<nonActionVars, stepLevel, metaInputs, stepWith, githubToken,
                   actionSteps, inputs, actionEnv, stepOutputs, githubOutput>>

NextAction ==
    \/ executeCompositeAction
    \/ executeActionRunStep
    \/ executeRunStep
    \/ ExecuteAction
    \/ executeCompositeStep
    \/ RunStep

SpecAction == InitAction /\ [][NextAction]_vars

\* ------------------------------------------------ parsing the workflow
\* A step of the document: which of run and uses it sets.
DocumentSteps == [run : BOOLEAN, uses : BOOLEAN]
\* The step lists explored: none, one or two steps.
DocumentStepLists ==
    {<<>>} \cup {<<s>> : s \in DocumentSteps}
           \cup {<<s, t>> : s \in DocumentSteps, t \in DocumentSteps}
\* A job of the document: whether runs-on is set, and its steps.
DocumentJobs == [runsOn : BOOLEAN, steps : DocumentStepLists]

\* A document that yaml.Unmarshal accepts: a name or none, and up to two
\* jobs.
InitParse ==
    /\ SchedulerIdle
    /\ gitAvailable = TRUE /\ actionFile = "yml" /\ CacheIdle
    /\ MatrixIdle
    /\ TemplateIdle
    /\ ActionIdle
    /\ RecursionIdle
    /\ OverlapIdle
    /\ engine \in {"pkg", "main"}
    /\ wfName \in {"", "ci"}
    /\ wfJobs \in PartialMaps({"a", "b"}, DocumentJobs)
    /\ parseResult = "none"
    /\ reachedSteps = {}

\* pkg/workflow Parser.validateStep.
validateStep(step) == (step.run \/ step.uses) /\ ~(step.run /\ step.uses)

\* pkg/workflow Parser.validateJob.
validateJob(job) ==
    /\ job.runsOn
    /\ job.steps # <<>>
    /\ \A i \in 1..Len(job.steps) : validateStep(job.steps[i])

\* pkg/workflow Parser.validate.
validate ==
    /\ wfName # ""
    /\ DOMAIN wfJobs # {}
    /\ \A jobID \in DOMAIN wfJobs : validateJob(wfJobs[jobID])

\* pkg/workflow Parser.Parse, after yaml.Unmarshal succeeded.
Parse ==
    /\ engine = "pkg" /\ parseResult = "none"
    /\ parseResult' = IF validate THEN "ok" ELSE "ParseError"
    /\ UNCHANGED <<nonParseVars, wfName, wfJobs, reachedSteps>>

\* main.go loadWorkflow, after yaml.Unmarshal succeeded: the workflow is
\* returned as it is.
loadWorkflow ==
    /\ engine = "main" /\ parseResult = "none"
    /\ parseResult' = "ok"
    /\ UNCHANGED <<nonParseVars, wfName, wfJobs, reachedSteps>>

\* One turn of the step loop of a job of the parsed workflow (main.go
\* executeJobSteps, pkg/executor Executor.executeJob): the loop is given the
\* next step of the job.  In main.go executeJobSync returns before the loop
\* when getRunnerImage finds no runs-on.
executeJobSteps(jobID) ==
    /\ parseResult = "ok"
    /\ engine = "main" => wfJobs[jobID].runsOn
    /\ \E i \in 1..Len(wfJobs[jobID].steps) :
         /\ <<jobID, i>> \notin reachedSteps
         /\ \A k \in 1..(i - 1) : <<jobID, k>> \in reachedSteps
         /\ reachedSteps' = reachedSteps \cup {<<jobID, i>>}
    /\ UNCHANGED <<nonParseVars, wfName, wfJobs, parseResult>>

NextParse ==
    \/ Parse
    \/ loadWorkflow
    \/ \E jobID \in DOMAIN wfJobs : executeJobSteps(jobID)

SpecParse == InitParse /\ [][NextParse]_vars

\* ------------------------------------------- actions that use actions
\* Deepest chain of nested invocations explored.
MaxActionDepth == 11

\* The composite actions explored.  runs.steps of each is a command
\* followed, unless the action uses none, by a step that uses the action
\* named: A uses itself; A and B use each other; A uses B; A uses none.
UsesGraphs ==
    {"A" :> "A",
     "A" :> "B" @@ "B" :> "A",
     "A" :> "B" @@ "B" :> "none",
     "A" :> "none"}

\* A step of a job uses action A: its invocation is under way.
InitRecursion ==
    /\ SchedulerIdle
    /\ gitAvailable = TRUE /\ actionFile = "yml" /\ CacheIdle
    /\ MatrixIdle
    /\ TemplateIdle
    /\ ActionIdle
    /\ ParseIdle
    /\ OverlapIdle
    /\ engine \in {"pkg", "main"}
    /\ actionUses \in UsesGraphs
    /\ callChain = <<"A">>
    /\ recursionPos = "run"
    /\ recursionResult = "none"

\* The action whose step loop is running.
Innermost == callChain[Len(callChain)]

\* The step loop of the innermost invocation runs its command (main.go
\* executeActionRunStep, pkg/actions executeShellStep): a command that fails
\* ends the loop with an error; after a command that succeeds the loop goes
\* on to the uses step, or ends when there is none.
runCommandStep ==
    /\ callChain # <<>> /\ recursionPos = "run"
    /\ \E ok \in BOOLEAN :
         recursionPos' = IF ~ok THEN "fail"
                         ELSE IF actionUses[Innermost] = "none" THEN "ok"
                         ELSE "uses"
    /\ UNCHANGED <<nonRecursionVars, actionUses, callChain, recursionResult>>

\* The step loop of the innermost invocation reaches its uses step: main.go
\* executeCompositeAction calls executeAction, pkg/actions
\* executeCompositeStep calls Execute.  Neither counts the invocations under
\* way; the chain grows as long as the actions use each other.
executeNestedAction ==
    /\ callChain # <<>> /\ recursionPos = "uses"
    /\ Len(callChain) < MaxActionDepth
    /\ callChain' = Append(callChain, actionUses[Innermost])
    /\ recursionPos' = "run"
    /\ UNCHANGED <<nonRecursionVars, actionUses, recursionResult>>

\* The innermost invocation returns.  Its caller's uses step is the last of
\* the caller's steps: the caller's loop ends with the same result, an error
\* being returned as the error of the nested step.
returnFromAction ==
    /\ callChain # <<>> /\ recursionPos \in {"ok", "fail"}
    /\ callChain' = SubSeq(callChain, 1, Len(callChain) - 1)
    /\ recursionResult' = IF Len(callChain) = 1 THEN recursionPos
                           ELSE recursionResult
    /\ UNCHANGED <<nonRecursionVars, actionUses, recursionPos>>

NextRecursion ==
    \/ runCommandStep
    \/ executeNestedAction
    \/ returnFromAction

SpecRecursion == InitRecursion /\ [][NextRecursion]_vars

\* --------------------------- two invocations of one action reference
\* The invocations: steps of two jobs that run at the same time, or a step
\* and the step of the action it uses, all with the same reference.
Invocations == {"i1", "i2"}
\* runs.steps of the action: one or two commands, each appending one record
\* with the key named to the file $GITHUB_OUTPUT names.
OverlapStepLists == {<<"K">>, <<"K", "J">>}

InitOverlap ==
    /\ SchedulerIdle
    /\ gitAvailable = TRUE /\ actionFile = "yml" /\ CacheIdle
    /\ MatrixIdle
    /\ TemplateIdle
    /\ ActionIdle
    /\ ParseIdle
    /\ RecursionIdle
    /\ engine = "pkg"
    /\ invSteps \in [Invocations -> OverlapStepLists]
    /\ invPc = [i \in Invocations |-> "idle"]
    /\ invDone = [i \in Invocations |-> 0]
    /\ invOutputs = [i \in Invocations |-> {}]
    /\ invResult = [i \in Invocations |-> "none"]
    /\ tmpDirExists = FALSE
    /\ githubOutputFile = <<>>

\* pkg/actions Executor.executeCompositeAction up to its step loop:
\* os.MkdirAll of the directory named after the reference.
mkdirTmpDir(i) ==
    /\ invPc[i] = "idle"
    /\ tmpDirExists' = TRUE
    /\ invPc' = [invPc EXCEPT ![i] = "loop"]
    /\ UNCHANGED <<nonOverlapVars, invSteps, invDone, invOutputs, invResult,
                   githubOutputFile>>

\* One turn of the step loop, executeCompositeStep with executeShellStep:
\* the command appends its record to the file; it fails when the directory
\* of the file is gone, and the invocation returns without success.
executeShellStep(i) ==
    /\ invPc[i] = "loop"
    /\ IF tmpDirExists
       THEN /\ githubOutputFile' =
                 Append(githubOutputFile,
                        [by |-> i, key |-> invSteps[i][invDone[i] + 1]])
            /\ invDone' = [invDone EXCEPT ![i] = @ + 1]
            /\ invPc' = [invPc EXCEPT ![i] =
                           IF invDone[i] + 1 = Len(invSteps[i]) THEN "read" ELSE "loop"]
            /\ UNCHANGED invResult
       ELSE /\ invPc' = [invPc EXCEPT ![i] = "returned"]
            /\ invResult' = [invResult EXCEPT ![i] = "fail"]
            /\ UNCHANGED <<githubOutputFile, invDone>>
    /\ UNCHANGED <<nonOverlapVars, invSteps, invOutputs, tmpDirExists>>

\* executeCompositeAction after the loop: os.ReadFile of the file and the
\* records of its lines; a file that cannot be read gives no outputs.
readGithubOutput(i) ==
    /\ invPc[i] = "read"
    /\ invOutputs' = [invOutputs EXCEPT ![i] =
                        {githubOutputFile[n] : n \in 1..Len(githubOutputFile)}]
    /\ invPc' = [invPc EXCEPT ![i] = "cleanup"]
    /\ UNCHANGED <<nonOverlapVars, invSteps, invDone, invResult, tmpDirExists,
                   githubOutputFile>>

\* executeCompositeAction, os.RemoveAll(tmpDir) and the return.
removeTmpDir(i) ==
    /\ invPc[i] = "cleanup"
    /\ tmpDirExists' = FALSE
    /\ githubOutputFile' = <<>>
    /\ invPc' = [invPc EXCEPT ![i] = "returned"]
    /\ invResult' = [invResult EXCEPT ![i] = "ok"]
    /\ UNCHANGED <<nonOverlapVars, invSteps, invDone, invOutputs>>

NextOverlap ==
    \E i \in Invocations :
        \/ mkdirTmpDir(i)
        \/ executeShellStep(i)
        \/ readGithubOutput(i)
        \/ removeTmpDir(i)

SpecOverlap == InitOverlap /\ [][NextOverlap]_vars

\* ------------------------------------------------------------ vocabulary
\* The worker of job j has begun executing the job (it is inside
\* Executor.executeJob or executeJobSync, or past it).
Started(j) ==
    phase[j] \in {"steps", "finished", "endCS", "recorded", "released", "done"}

\* The step loop of job j has returned: the job finished, with or without error.
Finished(j) == jobErr[j] # "none"

\* Job j is running: its worker started executing it and has not finished it.
RunningJobs == {j \in JobIDs : phase[j] \in {"steps", "finished", "endCS"}}

\* Job j finished and the scheduler state records it as successfully completed.
JobCompleted(j) ==
    IF engine = "pkg" THEN status[j] = JobStatusCompleted
    ELSE j \in completed /\ jobErr[j] = "ok"

\* The run is over: the package scheduler has returned to its caller; main.go
\* has left main().
RunOver == IF engine = "pkg" THEN pc = "returned" ELSE exited

RECURSIVE Closure(_)
Closure(S) ==
    LET n == S \cup UNION {needs[x] \cap JobIDs : x \in S}
    IN  IF n = S THEN S ELSE Closure(n)

\* The jobs B depends on through one or more needs edges.
TransitiveNeeds(B) == Closure(needs[B] \cap JobIDs)

NeedsNamesNonJob == \E j \in JobIDs : needs[j] \ JobIDs # {}
NeedsHaveCycle   == \E j \in JobIDs : j \in TransitiveNeeds(j)

\* ---------------------------------------------------------------- claims

C2_ConcurrencyBound == Cardinality(RunningJobs) <= maxConcurrent

\* The package scheduler alone keeps the bound of C2.
PkgConcurrencyBound == engine = "pkg" => Cardinality(RunningJobs) <= maxConcurrent

\* C3: a workflow whose needs edges contain a cycle is rejected with a
\* circular-dependency error before any step of any job executes.
C3_CycleRejected ==
    (NeedsHaveCycle /\ ~NeedsNamesNonJob) =>
        /\ \A j \in JobIDs : stepsRun[j] = 0
        /\ result \in {"none", "CircularDependency", "CircularOrStuck"}
        /\ (RunOver => result # "none")

\* The package scheduler alone rejects every cycle before any step.
PkgCycleRejected ==
    (engine = "pkg" /\ NeedsHaveCycle /\ ~NeedsNamesNonJob) =>
        /\ \A j \in JobIDs : phase[j] = "none" /\ stepsRun[j] = 0
        /\ result \in {"none", "CircularDependency"}

\* C4: if job A fails and job B needs A, then B never runs and B is recorded
\* as Skipped or an equivalent non-Completed terminal state (Failed).
C4_FailureShortCircuit ==
    \A A, B \in JobIDs :
        (engine = "pkg" /\ A \in needs[B] /\ status[A] = JobStatusFailed /\ RunOver) =>
            /\ stepsRun[B] = 0
            /\ status[B] \in {JobStatusSkipped, JobStatusFailed}

\* What holds of both schedulers: a job that needs a failed job never runs
\* and is never recorded as completed.
DependentOfFailedNeverRuns ==
    \A A, B \in JobIDs :
        (A \in needs[B] /\ jobErr[A] = "fail") =>
            /\ ~Started(B) /\ stepsRun[B] = 0
            /\ ~JobCompleted(B)

\* C5: a run returns success if and only if every job finished with
\* Completed status.
C5_SuccessIffAllCompleted ==
    /\ result = "success" => \A j \in JobIDs : JobCompleted(j)
    /\ result \notin {"none", "success"} => \E j \in JobIDs : ~JobCompleted(j)

\* C5 witness: a run that returned success, and every job ran all its steps.
C5_Witness ==
    /\ result = "success"
    /\ \A j \in JobIDs : stepsRun[j] = StepsPerJob /\ jobErr[j] = "ok"

\* C6: with jobs a (fails), b (needs a) and c (no dependencies, steps that
\* succeed), when the run is over c has completed successfully and the run's
\* status is a failure.
C6_IndependentJobCompletes ==
    ( /\ needs["a"] = {} /\ needs["b"] = {"a"} /\ needs["c"] = {}
      /\ jobErr["a"] = "fail" /\ jobErr["c"] # "fail"
      /\ RunOver ) =>
        /\ jobErr["c"] = "ok"
        /\ result \notin {"none", "success"}

\* The package scheduler alone meets the expectation of C6.
PkgIndependentJobCompletes ==
    ( /\ engine = "pkg"
      /\ needs["a"] = {} /\ needs["b"] = {"a"} /\ needs["c"] = {}
      /\ jobErr["a"] = "fail" /\ jobErr["c"] # "fail"
      /\ RunOver ) =>
        /\ status["c"] = JobStatusCompleted /\ stepsRun["b"] = 0
        /\ result = "JobFailed"

\* C7: once the scheduler has recorded the first job failure as the run's
\* error it launches no new job, and the jobs that were already running
\* continue to completion: none is left unfinished when the run is over.
C7_NoLaunchAfterFailure ==
    /\ [][result = "JobFailed" =>
            \A j \in JobIDs : phase[j] = "none" => phase'[j] = "none"]_vars
    /\ []((result = "JobFailed" /\ RunOver) =>
            \A j \in JobIDs : Started(j) => phase[j] = "done")

\* Both schedulers launch no job once the failure is the run's error.
NoLaunchAfterFailure ==
    [][result = "JobFailed" =>
         \A j \in JobIDs : phase[j] = "none" => phase'[j] = "none"]_vars

\* C8: the scheduler never waits forever: every run eventually returns
\* success or an error, for every workflow and every max_concurrent_jobs.
C8_RunReturns == <>(result # "none")

\* C9: whenever the ready set is empty, no job is running and at least one
\* job is still pending, the scheduler fails the run with a deadlock error:
\* its evaluation of the loop in such a state returns the error.
DeadlockCondition ==
    /\ pc = "loop"
    /\ \A j \in JobIDs : phase[j] \in {"none", "done"}
    /\ \E j \in JobIDs : phase[j] = "none"
    /\ \A j \in JobIDs :
         phase[j] = "none" => \E d \in needs[j] : ~(d \in JobIDs /\ JobCompleted(d))

C9_DeadlockDetected ==
    [][DeadlockCondition => result' \in {"Deadlock", "CircularOrStuck"}]_vars

C11_StepsInOrderFailStops ==
    \A j \in JobIDs :
        /\ Len(stepLog[j]) = stepsRun[j]
        /\ \A k \in 1..Len(stepLog[j]) :
             /\ stepLog[j][k][1] = k
             /\ ~stepLog[j][k][2] =>
                  /\ k = Len(stepLog[j])
                  /\ jobErr[j] = "fail"
                  /\ ~JobCompleted(j)
                  /\ status[j] # JobStatusCompleted

\* C11 witness: the first step of a job failed, the job ended with its
\* remaining steps not executed, and the run returned the failure.
C11_Witness ==
    \E j \in JobIDs :
        /\ stepLog[j] = <<<<1, FALSE>>>>
        /\ Len(stepLog[j]) < StepsPerJob
        /\ phase[j] = "done"
        /\ result = "JobFailed"

\* C12 as stated: the worker has released its semaphore slot by the time it
\* records the job's outcome (the final status) in the scheduler state.
C12_ReleaseBeforeRecord ==
    [][\A j \in JobIDs :
         (status[j] = JobStatusRunning
            /\ status'[j] \in {JobStatusCompleted, JobStatusFailed})
         => phase[j] \in {"released", "done"}]_vars

\* C12 amended: a worker records the job's outcome (final status, and the
\* completion of a successful job) in the scheduler state before it releases
\* its slot of the concurrency semaphore: a worker that has released its slot
\* has recorded, and a worker that records still holds its slot.
C12_RecordBeforeRelease ==
    \A j \in JobIDs :
        /\ (engine = "pkg" /\ phase[j] \in {"released", "done"}) =>
             /\ status[j] \in {JobStatusCompleted, JobStatusFailed}
             /\ (status[j] = JobStatusCompleted) = (jobErr[j] = "ok")
             /\ (jobErr[j] = "ok") = (j \in completedJobs)
        /\ phase[j] \in {"endCS", "recorded"} => semaphore >= 1

\* C12 witness: a worker has released its slot after recording a failure
\* while another worker still holds a slot.
C12_Witness ==
    \E j, k \in JobIDs :
        /\ j # k
        /\ phase[j] = "released" /\ status[j] = JobStatusFailed
        /\ phase[k] = "steps" /\ semaphore = 1

\* C13: the writes to the job state map are serialised.  A worker is inside
\* a critical section of executeJob only as the holder of the exclusive lock,
\* with no reader and no second writer, and only while the scheduler is
\* blocked in wg.Wait(); whenever the scheduler reads or writes the state
\* (with the read lock in getReadyJobs, or without a lock in the loop
\* condition) every worker it started has signalled wg.Done().
WritingWorkers == {j \in JobIDs : phase[j] \in {"beginCS", "endCS"}}

C13_StateWritesSerialised ==
    engine = "pkg" =>
        /\ Cardinality(WritingWorkers) <= 1
        /\ \A j \in WritingWorkers :
             mutex.writer = j /\ mutex.readers = {} /\ pc = "wait"
        /\ pc \in {"start", "loop", "round", "returned"} =>
             /\ \A j \in JobIDs : phase[j] \in {"none", "done"}
             /\ mutex.writer = "none"
        /\ pc = "round" => mutex.readers = {"sched"}

\* C13 witness: one worker is inside its critical section while another
\* worker, ready to enter its own, is kept out by the lock.
C13_Witness ==
    \E j, k \in JobIDs :
        /\ j # k
        /\ phase[j] = "endCS" /\ mutex.writer = j
        /\ phase[k] \in {"acquired", "finished"}

\* C15: the workspace directory of a job is owned exclusively by that job:
\* no two jobs of a run are given the same workspace directory, and no
\* job's workspace is the run's steps directory.
C15_ExclusiveWorkspace ==
    \A j \in JobIDs :
        workspace[j] # NoDir =>
            /\ workspace[j] # StepsDir
            /\ \A k \in JobIDs \ {j} : workspace[k] # workspace[j]

\* main.go gives every job of a run its own directory, as long as no job is
\* named like the steps directory.
MainExclusiveWorkspace == engine = "main" => C15_ExclusiveWorkspace

\* C16: the per-run temporary area exists from engine start to engine exit
\* and no longer exists once the engine has exited, whatever the outcome.
C16_TempAreaRemovedOnExit ==
    engine = "main" =>
        /\ (pc \in {"loop", "recv", "returned"} /\ ~exited) => pipelineDirExists
        /\ exited => ~pipelineDirExists

\* A run of main.go that returned anything but a job failure had no job in
\* flight when it returned, and leaves no per-run directory behind.
MainTempAreaRemovedUnlessJobFailed ==
    (engine = "main" /\ exited /\ result # "JobFailed") => ~pipelineDirExists

\* C14: concurrent resolution of the same ref never corrupts the cache.  A
\* resolution that is writing its staging directory, or is about to publish
\* it, finds there the tree it wrote itself; a resolution that is reading the
\* published tree finds a complete tree there; and what is published at the
\* cache location is never a tree whose clone has not finished.
C14_NoCacheCorruption ==
    /\ \A r \in Resolvers :
         /\ pcR[r] \in {"cloning", "cloning2", "rename"} =>
              tempTree.kind = "tree" /\ tempTree.by = r
         /\ pcR[r] = "rename" => tempTree.complete
         /\ pcR[r] \in {"cleanup", "using"} =>
              cacheTree.kind = "tree" /\ cacheTree.complete
    /\ cacheTree.kind = "tree" => cacheTree.complete

\* The resolutions of main.go, each in a directory of its own job, satisfy it.
MainNoCacheCorruption == engine = "main" => C14_NoCacheCorruption

\* The cache location holds a tree with action.yml or action.yaml.
HasActionFile(tree) == tree.kind = "tree" /\ tree.file \in {"yml", "yaml"}

C18_PublishedTreeIsAtRef ==
    cacheTree.kind = "tree" => cacheTree.rev = "ref"

\* C19: after matrix expansion all job IDs are pairwise distinct: two
\* different combinations of a job, and jobs cloned from different jobs of
\* the workflow, never receive the same ID, so that the resulting jobs map
\* has an entry for every one of them.
C19_ExpandedIDsDistinct ==
    /\ \A p, q \in assignments : p # q => p.id # q.id
    /\ expanded => Cardinality(DOMAIN expandedJobs) = Cardinality(assignments)

\* Within one job main.go numbers the combinations, which keeps them apart.
MainIDsDistinctWithinJob ==
    (engine = "main" /\ otherJob = "none") => C19_ExpandedIDsDistinct

\* The places of the cartesian product of the dimensions: an index into
\* every value list, and the combination found there.
Positions ==
    {p \in [DOMAIN matrixDims -> {1, 2}] :
        \A k \in DOMAIN matrixDims : p[k] <= Len(matrixDims[k])}
CombinationAt(p) == [k \in DOMAIN matrixDims |-> matrixDims[k][p[k]]]

\* d1 * d2 * ... * dn
RECURSIVE ProductOfSizes(_)
ProductOfSizes(keys) ==
    IF keys = {} THEN 1
    ELSE LET k == CHOOSE x \in keys : TRUE
         IN  Len(matrixDims[k]) * ProductOfSizes(keys \ {k})

\* The places an exclude entry removes: every key of the entry is in the
\* combination with an equal value.
RemovedBy(exclude) ==
    {p \in Positions :
        \A k \in DOMAIN exclude :
            k \in DOMAIN matrixDims /\ CombinationAt(p)[k] = exclude[k]}

\* Each exclude removes exactly one combination, and no two the same one.
ExcludesRemoveOneEach ==
    /\ \A e \in 1..Len(excludeList) : Cardinality(RemovedBy(excludeList[e])) = 1
    /\ \A e, f \in 1..Len(excludeList) :
         e # f => RemovedBy(excludeList[e]) # RemovedBy(excludeList[f])

\* An include agrees with a combination when the two are equal on every
\* dimension key the include has.
AgreesOnDimensions(combination, include) ==
    \A k \in DOMAIN matrixDims \cap DOMAIN include :
        k \in DOMAIN combination /\ combination[k] = include[k]

\* The includes are disjoint: none agrees with a combination the excludes
\* left, nor with an include before it.
IncludesDisjoint ==
    \A i \in 1..Len(includeList) :
        /\ \A p \in Positions :
             (\A e \in 1..Len(excludeList) : p \notin RemovedBy(excludeList[e]))
                => ~AgreesOnDimensions(CombinationAt(p), includeList[i])
        /\ \A j \in 1..(i - 1) :
             ~AgreesOnDimensions(includeList[j], includeList[i])

\* C20: for a matrix with dimensions of sizes d1..dn, E excludes that each
\* remove exactly one combination and I disjoint includes, the number of
\* expanded jobs is (d1 * ... * dn) - E + I.
C20_MatrixCardinality ==
    (expanded /\ otherJob = "none" /\ ExcludesRemoveOneEach /\ IncludesDisjoint)
    => Cardinality(DOMAIN expandedJobs)
         = ProductOfSizes(DOMAIN matrixDims) - Len(excludeList) + Len(includeList)

\* The expansion of main.go has that number of jobs.
MainMatrixCardinality == engine = "main" => C20_MatrixCardinality

\* C21: whenever a job has a matrix, the expansion yields at least one
\* combination: the job is replaced by at least one expanded job, and the
\* resulting jobs map holds a job cloned from it.
C21_AtLeastOneCombination ==
    expanded =>
        /\ \E a \in assignments : a.job = MatrixJob
        /\ \E id \in DOMAIN expandedJobs : expandedJobs[id] = MatrixJob

\* pkg/workflow has no excludes, so that the product of value lists that
\* are not empty always has a combination.
PkgAtLeastOneCombination ==
    (engine = "pkg" /\ expanded) => \E a \in assignments : a.job = MatrixJob

\* What a resulting combination says about the dimensions.
DimensionPart(combination) ==
    [k \in DOMAIN matrixDims \cap DOMAIN combination |-> combination[k]]
\* A job of the matrix job was produced for the product combination c.
Present(c) ==
    \E a \in assignments : a.job = MatrixJob /\ DimensionPart(a.combination) = c
\* Some exclude entry matches the combination at place p of the product.
Excluded(p) == \E e \in 1..Len(excludeList) : p \in RemovedBy(excludeList[e])
\* An include entry names exactly the combination c, which adds it again.
ReAdded(c) == \E i \in 1..Len(includeList) : DimensionPart(includeList[i]) = c

\* C22: a combination of the cartesian product is removed if and only if it
\* matches at least one exclude entry, that is, every key of the entry is in
\* the combination with an equal value: a combination no exclude matches
\* has its job, and one an exclude matches has none (unless an include entry
\* adds the same combination again).
C22_RemovedIffExcluded ==
    expanded =>
        \A p \in Positions :
            /\ ~Excluded(p) => Present(CombinationAt(p))
            /\ (Excluded(p) /\ ~ReAdded(CombinationAt(p)))
                  => ~Present(CombinationAt(p))

\* main.go removes exactly the combinations an exclude matches.
MainRemovedIffExcluded == engine = "main" => C22_RemovedIffExcluded

\* The product combinations no exclude matches, and the jobs and the
\* combinations the expansion produced for the matrix job.
Survivors == {CombinationAt(p) : p \in {q \in Positions : ~Excluded(q)}}
MatrixAssignments == {a \in assignments : a.job = MatrixJob}
ResultingCombinations == {a.combination : a \in MatrixAssignments}

\* The include entries from entry i on, applied to a list of combinations
\* as the rule says: the extra keys of an include go into the first
\* combination that agrees with it on its dimension keys, and an include no
\* combination agrees with is appended.
RECURSIVE IncludesApplied(_, _)
IncludesApplied(combinations, i) ==
    IF i > Len(includeList) THEN combinations
    ELSE LET include == includeList[i]
             agreeing == {n \in 1..Len(combinations) :
                            AgreesOnDimensions(combinations[n], include)}
             extraKeys == DOMAIN include \ DOMAIN matrixDims
         IN  IF agreeing = {}
             THEN IncludesApplied(Append(combinations, include), i + 1)
             ELSE LET first == CHOOSE n \in agreeing : \A o \in agreeing : n <= o
                      target == combinations[first]
                      merged == [k \in DOMAIN target \cup extraKeys |->
                                   IF k \in extraKeys THEN include[k] ELSE target[k]]
                  IN  IncludesApplied([combinations EXCEPT ![first] = merged], i + 1)

\* C23: for every include entry, if an existing combination agrees with it
\* on all of its keys that are dimension keys, its extra keys are merged
\* into the first such combination only; otherwise it is appended as a new
\* combination.  The resulting combinations are those the rule gives for
\* the surviving product combinations in some order.
C23_IncludeMergeOrAppend ==
    expanded =>
        \E existing \in KeyOrders(Survivors) :
            LET expected == IncludesApplied(existing, 1)
            IN  /\ ResultingCombinations = Range(expected)
                /\ Cardinality(MatrixAssignments) = Len(expected)

\* main.go applies the include entries by that rule.
MainIncludeMergeOrAppend == engine = "main" => C23_IncludeMergeOrAppend

\* The keys of a combination in sorted order.
SortedKeyList == <<"exclude", ExtraKey, "include", "os", "v">>
SortedKeys(S) == SelectSeq(SortedKeyList, LAMBDA k : k \in S)
\* Every ID is "<original_id> (<key>: <value>, ...)" with the keys of its
\* combination in sorted order.
IDsFromSortedKeys ==
    \A a \in MatrixAssignments :
        a.id = expandedJobID(MatrixJob, a.combination,
                             SortedKeys(DOMAIN a.combination))
\* Expanding the same job again gives the same IDs, each bound to the same
\* combination.
SameExpansionAgain == [][expanded => assignments' = assignments]_vars

\* C24: matrix expansion is deterministic: expanding the same job twice
\* yields the same set of expanded job IDs, each bound to the same
\* combination, and each ID is "<original_id> (<key>: <value>, ...)" built
\* from the keys of the combination in sorted order.
C24_DeterministicExpansion ==
    [][/\ expanded' => IDsFromSortedKeys'
       /\ expanded => assignments' = assignments]_vars

\* The textual fields of a job: job env values; step name, run, uses, if,
\* env values and string with values.
TextualFields ==
    {"env.VAR", "steps.0.name", "steps.0.run", "steps.0.uses", "steps.0.if",
     "steps.0.with.arg", "steps.0.env.VAR"}

\* C25: each expanded job is a clone of the original job that differs from
\* it only in that strategy is cleared and the matrix.* tokens of its
\* textual fields are substituted; every other field of the job and of its
\* steps is preserved.
C25_CloneDiffersOnlyByMatrix ==
    expanded =>
        \A x \in clonedJobs :
            /\ DOMAIN x.clone = DOMAIN originalJob \ {"strategy"}
            /\ \A p \in DOMAIN x.clone \ TextualFields :
                 x.clone[p] = originalJob[p]
            /\ "os" \in DOMAIN x.combination =>
                 \A p \in DOMAIN x.clone \cap TextualFields :
                     x.clone[p] = ReplaceAll(originalJob[p], Token("matrix", "os"),
                                             <<Lit(x.combination["os"].s)>>)

\* pkg/workflow copies every field of the job and of its steps.
PkgCloneDiffersOnlyByMatrix == engine = "pkg" => C25_CloneDiffersOnlyByMatrix

\* What the function chosen replaces the expression <context>.<name> by:
\* the value of a name of its context (nothing when there is none), the
\* commit for github.sha; substituteMatrixVars leaves what is not matrix.
ValueOfExpression(ref) ==
    IF ref.a = ContextOf(substituter)
    THEN IF ref.b \in DOMAIN templateEnv THEN templateEnv[ref.b] ELSE <<>>
    ELSE IF substituter = "substituteMatrixVars" THEN Token(ref.a, ref.b)
    ELSE IF ref # Ref("github", "sha") THEN <<>>
    ELSE IF substituter = "ProcessTemplate" THEN <<Lit("abc123")>>
    ELSE IF githubSha = <<>> THEN <<Lit("unknown")>> ELSE githubSha

\* The text with every ${{ ... }} of it replaced once, from left to right;
\* what a replacement put in is not looked at again.
RECURSIVE SubstitutedOnce(_)
SubstitutedOnce(text) ==
    IF text = <<>> THEN <<>>
    ELSE IF /\ Len(text) >= 5
            /\ text[1] = Open /\ text[2] = Sp /\ text[3].kind = "ref"
            /\ text[4] = Sp /\ text[5] = Close
         THEN ValueOfExpression(text[3]) \o SubstitutedOnce(SubSeq(text, 6, Len(text)))
         ELSE <<Head(text)>> \o SubstitutedOnce(Tail(text))

\* C27: expression substitution is non-recursive: the text a replacement
\* produced is never scanned or substituted again, whatever the value
\* contains, so the result is the text with each of its own expressions
\* replaced once.
C27_SubstitutionNonRecursive ==
    templateDone => substituted = SubstitutedOnce(templateText)

\* The regular-expression replacement of pkg/actions makes one pass.
PkgSubstitutionNonRecursive ==
    substituter = "ProcessTemplate" => C27_SubstitutionNonRecursive

\* With values that hold no expression both functions of main.go give the
\* same text as one pass.
PlainValues ==
    \A n \in DOMAIN templateEnv :
        \A i \in 1..Len(templateEnv[n]) : templateEnv[n][i].kind = "lit"
MainSubstitutionOfPlainValues == PlainValues => C27_SubstitutionNonRecursive

\* A required input of the action has no default and the calling step
\* gives it no value.
MissingRequired ==
    \E n \in DOMAIN metaInputs :
        /\ metaInputs[n].required
        /\ metaInputs[n].default = <<>>
        /\ n \notin DOMAIN stepWith

\* C28: invoking a composite action without supplying a required input that
\* has no default fails with an input-validation error, and no sub-step of
\* the action is executed.
C28_RequiredInputValidated ==
    (stepLevel = "action" /\ MissingRequired /\ actionPc # "idle") =>
        /\ actionPc = "returned"
        /\ actionErr = "InputValidation"
        /\ ranSteps = <<>>

\* The package executor alone validates the required inputs.
PkgRequiredInputValidated == engine = "pkg" => C28_RequiredInputValidated

\* The value the calling step's with, else the metadata default, gives to
\* a declared input; an absent default is the empty text.
EffectiveValue(n) ==
    IF n \in DOMAIN stepWith THEN stepWith[n] ELSE metaInputs[n].default

\* The value a process reads from a variable: empty when it is not set.
ValueOfVariable(env, name) == IF name \in DOMAIN env THEN env[name] ELSE <<>>

\* Sub-step i saw the effective value of input n: in its INPUT_ variable
\* and, when its command is echo ${{ inputs.n }}, in its command.
SawEffectiveValue(i, n) ==
    /\ ValueOfVariable(ranSteps[i].env, envNameOf(n)) = EffectiveValue(n)
    /\ actionSteps[i] = Greet(n) =>
          ranSteps[i].run = <<Lit("echo"), Sp>> \o EffectiveValue(n)

\* C29: for each input declared in the action metadata, the effective value
\* seen by the action's sub-steps, as inputs.<name> and as the environment
\* variable INPUT_<UPPER_SNAKE_NAME>, is the calling step's with.<name>
\* value if present, otherwise the metadata default, otherwise the empty
\* string.
C29_EffectiveInputValue ==
    stepLevel = "action" =>
        \A i \in 1..Len(ranSteps) : \A n \in DOMAIN metaInputs :
            SawEffectiveValue(i, n)

\* main.go gives the effective value of every input that has a value in
\* with or a default in the metadata.
MainEffectiveValueWhenNotEmpty ==
    (engine = "main" /\ stepLevel = "action") =>
        \A i \in 1..Len(ranSteps) : \A n \in DOMAIN metaInputs :
            (n \in DOMAIN stepWith \/ metaInputs[n].default # <<>>) =>
                SawEffectiveValue(i, n)

\* The package executor gives the value of with in the INPUT_ variable of
\* every input the calling step gives.
PkgVariableOfGivenInput ==
    (engine = "pkg" /\ stepLevel = "action") =>
        \A i \in 1..Len(ranSteps) : \A n \in DOMAIN metaInputs \cap DOMAIN stepWith :
            ValueOfVariable(ranSteps[i].env, envNameOf(n)) = stepWith[n]

\* C30: in a composite action, sub-steps run in declaration order and the
\* first failing sub-step (shell or nested action) stops the action: no
\* later sub-step runs and the failure propagates upward to the calling
\* step and its job.
C30_FirstFailureStops ==
    stepLevel = "action" =>
        \A i \in 1..Len(ranSteps) :
            /\ ranSteps[i].index = i
            /\ ~ranSteps[i].ok =>
                  /\ i = Len(ranSteps)
                  /\ actionPc = "returned"
                  /\ actionErr = "StepFailed"
                  /\ jobOutcome = "fail"

\* C30 witness: the second sub-step of an action failed after the first
\* succeeded, a third sub-step is left, and the job has failed.
C30_Witness ==
    /\ stepLevel = "action"
    /\ Len(ranSteps) = 2 /\ Len(actionSteps) > 2
    /\ ranSteps[1].ok /\ ~ranSteps[2].ok
    /\ jobOutcome = "fail"

\* A nested action that fails stops the action too.
NestedFailureStops ==
    (stepLevel = "action" /\ Len(ranSteps) >= 1 /\ actionSteps[1] = NestedStep
       /\ ~ranSteps[1].ok) =>
        Len(ranSteps) = 1 /\ jobOutcome = "fail"

\* Step i has an id, ran to its end and wrote the one record K=v; step j,
\* handled later, echoes the output K of step i.
WroteThenRead(i, j, v) ==
    /\ i < j /\ j <= Len(ranSteps)
    /\ actionSteps[i] = WriteStep("s1", v)
    /\ ranSteps[i].ok
    /\ actionSteps[j] = ReadStep

\* C26: for any step with an id that writes the record K=V (no newline in
\* V) to its GITHUB_OUTPUT file, a subsequent step of the same job that
\* references steps.<id>.outputs.K observes exactly V after substitution.
C26_OutputRoundTrip ==
    \A i, j \in 1..Len(actionSteps) : \A v \in OutputValues :
        WroteThenRead(i, j, v) => ranSteps[j].run = <<Lit("echo"), Sp>> \o v

\* Between the sub-steps of a composite action, main.go hands over every
\* value that neither begins nor ends with white space.
MainActionOutputRoundTrip ==
    (engine = "main" /\ stepLevel = "action") =>
        \A i, j \in 1..Len(actionSteps) : \A v \in OutputValues :
            (WroteThenRead(i, j, v) /\ TrimSpace(v) = v) =>
                ranSteps[j].run = <<Lit("echo"), Sp>> \o v

\* Everywhere else the reference never becomes the value written.
NoOutputElsewhere ==
    (engine = "pkg" \/ stepLevel = "job") =>
        \A i, j \in 1..Len(actionSteps) : \A v \in OutputValues :
            WroteThenRead(i, j, v) =>
                ranSteps[j].run \in {<<Lit("echo"), Sp>>, ReadStep.run}

\* The steps of the status lifecycle.
LifecycleSteps ==
    {<<JobStatusPending, JobStatusReady>>, <<JobStatusReady, JobStatusRunning>>,
     <<JobStatusRunning, JobStatusCompleted>>, <<JobStatusRunning, JobStatusFailed>>}

HandedToWorker(j) ==
    /\ phase'[j] # phase[j]
    /\ phase'[j] = (IF engine = "pkg" THEN "waiting" ELSE "steps")

\* C36: each job is started at most once per run: once a job has been handed
\* to a worker it is never selected as ready again, however worker
\* completions interleave with the computation of the ready set.
C36_StartedAtMostOnce ==
    [][\A j \in JobIDs : phase[j] # "none" => ~HandedToWorker(j)]_vars

\* C36 witness: job a has completed, job b, which needs a, has been started
\* in a later round, and a third job started with a is still running.
C36_Witness ==
    \E a, b, c \in JobIDs :
        /\ a # b /\ c \notin {a, b}
        /\ a \in needs[b] /\ needs[c] = {}
        /\ JobCompleted(a)
        /\ Started(b) /\ ~Finished(b)
        /\ Started(c) /\ ~Finished(c)

\* The package scheduler runs a workflow that passed validateDependencies.
PkgValidated == engine = "pkg" /\ pc # "start" /\ validateDependencies = "ok"
\* Some job is not Completed and no job has failed.
WorkLeft ==
    /\ \E j \in JobIDs : status[j] # JobStatusCompleted
    /\ \A j \in JobIDs : status[j] # JobStatusFailed
\* A Pending job has all its dependencies completed.
SomePendingJobReady ==
    \E j \in JobIDs :
        status[j] = JobStatusPending /\ \A d \in needs[j] : d \in completedJobs
\* No deadlock is reported, and the loop is left with uncompleted jobs only
\* when a job failed.
NoDeadlockReported ==
    /\ result # "Deadlock"
    /\ (pc = "returned" /\ \E j \in JobIDs : status[j] # JobStatusCompleted) =>
          \E j \in JobIDs : status[j] = JobStatusFailed

\* C37 as stated: after dependency validation has succeeded, the package
\* scheduler never reports a deadlock and never leaves its loop with
\* uncompleted jobs unless a job failed: whenever some job is not Completed
\* and no job has failed, at least one Pending job has all its dependencies
\* completed.
C37_PendingJobReadyWhenever ==
    PkgValidated => NoDeadlockReported /\ (WorkLeft => SomePendingJobReady)

\* C37 amended: after dependency validation has succeeded, the package
\* scheduler never reports a deadlock and never leaves its loop with
\* uncompleted jobs unless a job failed: whenever it computes the ready
\* jobs while some job is not Completed, no job has failed and at least one
\* Pending job has all its dependencies completed.
C37_PendingJobReadyEachRound ==
    PkgValidated =>
        /\ NoDeadlockReported
        /\ (pc = "round" /\ \E j \in JobIDs : status[j] # JobStatusCompleted) =>
              WorkLeft /\ SomePendingJobReady

\* C37 witness: the package scheduler computes the ready jobs of a later
\* round: a job has completed and a job that needs it is Pending.
C37_Witness ==
    /\ PkgValidated /\ pc = "round"
    /\ \E a, b \in JobIDs :
          /\ a \in needs[b]
          /\ status[a] = JobStatusCompleted /\ status[b] = JobStatusPending

\* The document has no jobs, a job without runs-on or without steps, or a
\* step with both or neither of run and uses.
Malformed ==
    \/ DOMAIN wfJobs = {}
    \/ \E jobID \in DOMAIN wfJobs :
          \/ ~wfJobs[jobID].runsOn
          \/ wfJobs[jobID].steps = <<>>
          \/ \E i \in 1..Len(wfJobs[jobID].steps) :
                wfJobs[jobID].steps[i].run = wfJobs[jobID].steps[i].uses

\* C32: parsing fails with a parse error when the workflow has no jobs, when
\* a job lacks runs_on or has zero steps, or when a step has both or neither
\* of run/uses; consequently every step that reaches execution has exactly
\* one of run/uses set.
C32_ParseRejectsMalformed ==
    /\ (Malformed /\ parseResult # "none") => parseResult = "ParseError"
    /\ \A p \in reachedSteps :
          wfJobs[p[1]].steps[p[2]].run # wfJobs[p[1]].steps[p[2]].uses

\* The package parser alone rejects every malformed document.
PkgParseRejectsMalformed == engine = "pkg" => C32_ParseRejectsMalformed

\* The scheduler is blocked until a running job ends: the package scheduler
\* in wg.Wait() with workers outstanding, main.go in the receive on results
\* with no result to receive.
SchedulerWaits ==
    IF engine = "pkg" THEN pc = "wait" /\ wg > 0
    ELSE pc = "recv" /\ results = <<>> /\ ~exited

\* A concurrency slot is free: the semaphore of the package scheduler has
\* room; main.go has no semaphore, fewer than maxConcurrent jobs run.
SlotFree ==
    IF engine = "pkg" THEN semaphore < maxConcurrent
    ELSE Cardinality(RunningJobs) < maxConcurrent

\* Job j has not been handed to a worker although every job it needs has
\* completed successfully.
Startable(j) == phase[j] = "none" /\ \A d \in needs[j] : JobCompleted(d)

\* C34: scheduling maximizes parallelism while respecting dependencies: a
\* pending job whose dependencies have all completed successfully is started
\* as soon as a concurrency slot is free, without waiting for unrelated jobs
\* that are still running; the scheduler never waits for a running job while
\* a slot is free and such a job has not been started.
C34_StartedWithoutWaiting ==
    ~(/\ SchedulerWaits
      /\ RunningJobs # {}
      /\ SlotFree
      /\ \E j \in JobIDs : Startable(j))

\* main.go starts every such job before it waits for the next result.
MainStartedWithoutWaiting == engine = "main" => C34_StartedWithoutWaiting

\* C35: matrix expansion preserves dependency validity: if every ID in every
\* needs list names an existing job before expansion, then every ID in every
\* needs list names an existing job after expansion, in particular when some
\* job needs a job that has a matrix.
C35_NeedsValidAfterExpansion ==
    expanded =>
        \A id \in DOMAIN expandedJobs :
            NeedsOf(expandedJobs[id]) \subseteq DOMAIN expandedJobs

\* The needs lists stay valid when no job needs the job with the matrix.
NeedsValidWithoutMatrixDependency ==
    otherNeeds = {} => C35_NeedsValidAfterExpansion

\* Sub-step i of the composite action has an id and its command ran to its
\* end.
RecordedSubStep(i) ==
    /\ i <= Len(ranSteps)
    /\ actionSteps[i].kind = "run" /\ actionSteps[i].id # ""
    /\ ranSteps[i].ok

\* C39: in main.go's composite action execution, the outputs recorded for a
\* sub-step that has an id are exactly the KEY=VALUE records written by that
\* sub-step: records written by earlier sub-steps (with or without an id) are
\* never attributed to it.
C39_OutputsOfOwnRecords ==
    (engine = "main" /\ stepLevel = "action") =>
        \A i \in 1..Len(actionSteps) :
            RecordedSubStep(i) =>
                stepOutputs[actionSteps[i].id] = parseStepOutputs(actionSteps[i].writes)

\* The outputs are the sub-step's own records when no earlier sub-step
\* without an id wrote a record.
OwnRecordsAfterSilentSteps ==
    (engine = "main" /\ stepLevel = "action") =>
        \A i \in 1..Len(actionSteps) :
            (RecordedSubStep(i)
               /\ \A k \in 1..(i - 1) :
                     actionSteps[k].id = "" => actionSteps[k].writes = <<>>) =>
                stepOutputs[actionSteps[i].id] = parseStepOutputs(actionSteps[i].writes)

\* The actions used from action A, directly or through other actions.
UsedFromA ==
    LET first == actionUses["A"]
        second == IF first \in DOMAIN actionUses THEN actionUses[first] ELSE "none"
    IN  {first, second} \ {"none"}

\* C31: execution of a composite action that uses itself, directly or
\* transitively, terminates: nested action invocation depth is capped and an
\* invocation beyond the limit fails with ActionRecursionLimit.  The chain
\* of invocations stays below MaxActionDepth, the deepest chain explored.
C31_RecursionCapped ==
    "A" \in UsedFromA => Len(callChain) < MaxActionDepth

\* The chain is as long as the chain of uses when no action uses itself.
ChainBoundedWithoutCycle ==
    "A" \notin UsedFromA => Len(callChain) <= Cardinality(UsedFromA) + 1

\* The records invocation i has written that are in the file.
OwnRecordsInFile(i) ==
    {n \in 1..Len(githubOutputFile) : githubOutputFile[n].by = i}

\* Invocation i is between the creation of its directory and the reading of
\* its file.
InStepLoop(i) == invPc[i] \in {"loop", "read"}

\* Nothing has interfered with invocation i: what it collected are its own
\* records, and while it runs its directory exists and its file holds every
\* record it wrote.
Undisturbed(i) ==
    /\ \A r \in invOutputs[i] : r.by = i
    /\ InStepLoop(i) =>
          tmpDirExists /\ Cardinality(OwnRecordsInFile(i)) = invDone[i]

\* C38: two invocations of the same composite action reference that overlap
\* in time (from different jobs, or nested) do not interfere: the outputs
\* collected for each invocation contain only records written by its own
\* sub-steps, and its GITHUB_OUTPUT file and temporary directory are not
\* removed or rewritten by the other invocation.
C38_InvocationsDoNotInterfere == \A i \in Invocations : Undisturbed(i)

\* An invocation is undisturbed as long as the other has not begun.
UndisturbedBeforeTheOtherBegins ==
    \A i, o \in Invocations : (o # i /\ invPc[o] = "idle") => Undisturbed(i)

\* C40: substituteWorkflowTemplates terminates for every input text and
\* every workflow/config/process environment, including when a substituted
\* value itself contains a ${{ ... }} token.
C40_SubstitutionTerminates == <>(templatePc = "returned")

\* The function returns whenever GITHUB_SHA holds no ${{ ... }} token, also
\* when values of the workflow environment hold one.
TerminatesWithPlainSha ==
    (githubSha \in ShaValues) => <>(templatePc = "returned")

\* Turn by turn the function returns what substituteWorkflowTemplates gives
\* for one of the orders of the range over workflowEnv.
TurnsGiveSubstitution ==
    templatePc = "returned" =>
        \E order \in KeyOrders(DOMAIN templateEnv) :
            substituted = substituteWorkflowTemplates(templateText, templateEnv, order)

\* A turn of the second loop changes the text.  Where this fails the loop
\* does not break and its turn gives back the text it started from: the
\* code takes that turn again and again.
TurnChangesText ==
    (templatePc = "loop" /\ ~loopBreaks(substituted)) =>
        loopTurn(substituted) # substituted

====
